---- MODULE Spec2Model ----
(***************************************************************************)
(* State-machine model of the zaik text-adventure engine: the Session      *)
(* Store (GameStateManager over a TinyDB table), the Command Executor and  *)
(* the world data they read.  Python strings are sequences of one-char     *)
(* strings, so that lower(), "in" and join() are computed, not assumed.    *)
(* Optional[T] is a sequence of length 0 (None) or 1.                      *)
(***************************************************************************)
EXTENDS Integers, Sequences, FiniteSets, TLC

VARIABLES
  adventures,  \* TinyDB table 'adventures': sequence of Adventure documents
  sessions,    \* TinyDB table 'game_sessions': sequence of session documents
  issued,      \* session ids uuid4() has handed out so far
  origin,      \* history: per issued id, the starting location it was created at
  clock,       \* latest value datetime.now() has returned
  pre,         \* history: the game_sessions table before the last operation
  call,        \* history: the last API call (operation and arguments)
  result,      \* history: what the last API call returned or raised
  pc,          \* per caller: position inside an interleaved call
  frame,       \* per caller: the locals of its interleaved call
  asked        \* history: calls of the interpreter's generate_text in the last call

vars ==
  <<adventures, sessions, issued, origin, clock, pre, call, result, pc, frame, asked>>

-----------------------------------------------------------------------------
(* Bounds *)

MaxClock == 1

-----------------------------------------------------------------------------
(* Python values *)

None == <<>>
Some(v) == <<v>>
IsNone(o) == Len(o) = 0
Val(o) == o[1]

\* Python truthiness of an Optional[str]: None and "" are falsy.
Falsy(o) == IsNone(o) \/ Len(Val(o)) = 0

Range(q) == {q[i] : i \in 1..Len(q)}

UpperChars == <<"A","B","C","D","E","F","G","H","I","J","K","L","M","N","O","P","Q","R","S","T","U","V","W","X","Y","Z">>
LowerChars == <<"a","b","c","d","e","f","g","h","i","j","k","l","m","n","o","p","q","r","s","t","u","v","w","x","y","z">>

\* the lower-case letter of each upper-case letter
LowerTable ==
  [c \in Range(UpperChars) |->
     LowerChars[CHOOSE i \in 1..Len(UpperChars) : UpperChars[i] = c]]

LowerChar(c) == IF c \in DOMAIN LowerTable THEN LowerTable[c] ELSE c

\* str.lower()
Lower(s) == [i \in 1..Len(s) |-> LowerChar(s[i])]

\* Python's `needle in hay` on two strings
Contains(needle, hay) ==
  \E i \in 0..(Len(hay) - Len(needle)) : SubSeq(hay, i + 1, i + Len(needle)) = needle

\* sep.join(parts)
RECURSIVE Join(_, _)
Join(sep, parts) ==
  IF Len(parts) = 0 THEN <<>>
  ELSE IF Len(parts) = 1 THEN parts[1]
  ELSE parts[1] \o sep \o Join(sep, Tail(parts))

CommaJoin(parts) == Join(<<","," ">>, parts)

\* [f(x) for x in q if p(x)] is SelectSeq followed by a map
MapSeq(q, F(_)) == [i \in 1..Len(q) |-> F(q[i])]

\* dict with no keys, dict.get(k, default), d[k] = v
EmptyDict == [k \in {} |-> TRUE]
DictGet(d, k, default) == IF k \in DOMAIN d THEN d[k] ELSE default
DictSet(d, k, v) == [x \in (DOMAIN d) \cup {k} |-> IF x = k THEN v ELSE d[x]]

\* list(a_set): the elements once each, in an order the interpreter picks
Orders(S) == {q \in [1..Cardinality(S) -> S] : Range(q) = S}

\* list.remove(x): drops the first occurrence
RECURSIVE RemoveFirst(_, _)
RemoveFirst(q, x) ==
  IF Len(q) = 0 THEN q
  ELSE IF Head(q) = x THEN Tail(q)
  ELSE <<Head(q)>> \o RemoveFirst(Tail(q), x)

-----------------------------------------------------------------------------
(* World data used by the checks: identifiers, names and player words *)

S_manor == <<"m","a","n","o","r">>
S_trap == <<"t","r","a","p">>
S_ghost == <<"g","h","o","s","t">>
S_hall == <<"h","a","l","l">>
S_garden == <<"g","a","r","d","e","n">>
S_vault == <<"v","a","u","l","t">>
S_cell == <<"c","e","l","l">>
S_void == <<"v","o","i","d">>
S_north == <<"n","o","r","t","h">>
S_east == <<"e","a","s","t">>
S_south == <<"s","o","u","t","h">>
S_gate == <<"g","a","t","e">>
S_west == <<"w","e","s","t">>
S_out == <<"o","u","t">>
S_key == <<"k","e","y">>
S_statue == <<"s","t","a","t","u","e">>
S_gem == <<"g","e","m">>
S_rose == <<"r","o","s","e">>
S_Hall == <<"H","a","l","l">>
S_Garden == <<"G","a","r","d","e","n">>
S_Vault == <<"V","a","u","l","t">>
S_Cell == <<"C","e","l","l">>
S_AHall == <<"A"," ","h","a","l","l",".">>
S_AGarden == <<"A"," ","g","a","r","d","e","n",".">>
S_AVault == <<"A"," ","v","a","u","l","t",".">>
S_ACell == <<"A"," ","c","e","l","l",".">>
S_KeyStatue == <<"K","e","y"," ","S","t","a","t","u","e">>
S_BrassKey == <<"B","r","a","s","s"," ","K","e","y">>
S_Gem == <<"G","e","m">>
S_RedFlower == <<"R","e","d"," ","F","l","o","w","e","r">>
S_flower == <<"f","l","o","w","e","r">>
S_Bob == <<"B","o","b">>
S_won == <<"w","o","n">>
S_AStatue == <<"S","t","o","n","e",".">>
S_AKey == <<"S","h","i","n","y",".">>
S_AGem == <<"R","e","d",".">>
S_ARose == <<"T","h","o","r","n","y",".">>
S_brass == <<"b","r","a","s","s">>
S_KE == <<"K","E">>
S_Key == <<"K","e","y">>
S_e == <<"e">>
S_xyzzy == <<"x","y","z","z","y">>
S_door == <<"d","o","o","r">>
S_Huh == <<"H","u","h","?">>
S_item_taken_ == <<"i","t","e","m","_","t","a","k","e","n","_">>

-----------------------------------------------------------------------------
(* World Model records *)

Exit(direction, location_id, locked, required_item) ==
  [direction |-> direction, location_id |-> location_id,
   locked |-> locked, required_item |-> required_item]

Item(id, name, description, takeable, visible) ==
  [id |-> id, name |-> name, description |-> description,
   takeable |-> takeable, visible |-> visible]

\* exits is the dict in insertion order: a sequence of <<key, Exit>> pairs
Location(id, name, description, exits, items) ==
  [id |-> id, name |-> name, description |-> description,
   exits |-> exits, items |-> items]

Adventure(id, starting_location_id, locations) ==
  [id |-> id, starting_location_id |-> starting_location_id,
   locations |-> locations]

\* location.exits.keys() and location.exits.get(key)
ExitKeys(location) == MapSeq(location.exits, LAMBDA p : p[1])
ExitGet(location, key) ==
  IF \E i \in 1..Len(location.exits) : location.exits[i][1] = key
  THEN Some(location.exits[CHOOSE i \in 1..Len(location.exits) :
                              location.exits[i][1] = key][2])
  ELSE None

\* A well-formed adventure (the shape of the repository's test fixture, with a
\* non-takeable item whose name contains the word "key" listed before the key).
Manor ==
  Adventure(S_manor, S_hall,
    (S_hall :> Location(S_hall, S_Hall, S_AHall,
        << <<S_north, Exit(S_north, S_garden, FALSE, None)>>,
           <<S_east, Exit(S_east, S_vault, TRUE, Some(S_key))>> >>,
        << Item(S_statue, S_KeyStatue, S_AStatue, FALSE, TRUE),
           Item(S_key, S_BrassKey, S_AKey, TRUE, TRUE),
           Item(S_gem, S_Gem, S_AGem, TRUE, FALSE) >>))
    @@
    (S_garden :> Location(S_garden, S_Garden, S_AGarden,
        << <<S_south, Exit(S_south, S_hall, FALSE, None)>>,
           <<S_gate, Exit(S_gate, S_vault, TRUE, None)>> >>,
        << Item(S_rose, S_RedFlower, S_ARose, TRUE, TRUE) >>))
    @@
    (S_vault :> Location(S_vault, S_Vault, S_AVault,
        << <<S_west, Exit(S_west, S_hall, FALSE, None)>> >>,
        << >>)))

\* An adventure with a dangling exit: "out" leads to a location id that is not
\* a key of the location map.
Trap ==
  Adventure(S_trap, S_cell,
    (S_cell :> Location(S_cell, S_Cell, S_ACell,
        << <<S_out, Exit(S_out, S_void, FALSE, None)>> >>,
        << >>)))

World == <<Manor, Trap>>

\* Every exit's target location id is a key of the adventure's location map.
WellFormed(adventure) ==
  \A l \in DOMAIN adventure.locations :
    \A i \in 1..Len(adventure.locations[l].exits) :
      adventure.locations[l].exits[i][2].location_id \in DOMAIN adventure.locations

-----------------------------------------------------------------------------
(* Session records and the TinyDB table that stores them *)

\* faulty variant: the session constructed with the model's default, an empty
\* visited set
NewSessionUnvisited(id, adventure_id, starting_location_id, player_name, now) ==
  [id |-> id,
   adventure_id |-> adventure_id,
   player_name |-> player_name,
   current_location_id |-> starting_location_id,
   visited_locations |-> {},
   inventory |-> <<>>,
   location_states |-> EmptyDict,
   global_flags |-> EmptyDict,
   created_at |-> now,
   updated_at |-> now,
   last_played_at |-> now]

\* GameSession as create_session constructs it: the three timestamp defaults
\* are datetime.now() at construction (created_at keeps it, save_session
\* overwrites the other two).
NewSession(id, adventure_id, starting_location_id, player_name, now) ==
  [id |-> id,
   adventure_id |-> adventure_id,
   player_name |-> player_name,
   current_location_id |-> starting_location_id,
   visited_locations |-> {starting_location_id},
   inventory |-> <<>>,
   location_states |-> EmptyDict,
   global_flags |-> EmptyDict,
   created_at |-> now,
   updated_at |-> now,
   last_played_at |-> now]

\* datetime.isoformat() and its parse by the model constructor: the stored
\* document holds a string, not a datetime.
IsoFormat(t) == <<"iso", t>>
FromIso(x) == x[2]

\* session.model_dump() with the set turned into a list (in the order vl) and
\* the datetimes into ISO strings
SessionDict(session, vl) ==
  [id |-> session.id,
   adventure_id |-> session.adventure_id,
   player_name |-> session.player_name,
   current_location_id |-> session.current_location_id,
   visited_locations |-> vl,
   inventory |-> session.inventory,
   location_states |-> session.location_states,
   global_flags |-> session.global_flags,
   created_at |-> IsoFormat(session.created_at),
   updated_at |-> IsoFormat(session.updated_at),
   last_played_at |-> IsoFormat(session.last_played_at)]

\* GameSession(**document): the list becomes a set again, the strings datetimes
FromDict(doc) ==
  [id |-> doc.id,
   adventure_id |-> doc.adventure_id,
   player_name |-> doc.player_name,
   current_location_id |-> doc.current_location_id,
   visited_locations |-> Range(doc.visited_locations),
   inventory |-> doc.inventory,
   location_states |-> doc.location_states,
   global_flags |-> doc.global_flags,
   created_at |-> FromIso(doc.created_at),
   updated_at |-> FromIso(doc.updated_at),
   last_played_at |-> FromIso(doc.last_played_at)]

\* table.get(query.id == id): the first matching document, or None
TableGet(table, id) ==
  IF \E i \in 1..Len(table) : table[i].id = id
  THEN Some(table[CHOOSE i \in 1..Len(table) :
                    table[i].id = id /\ \A j \in 1..(i - 1) : table[j].id # id])
  ELSE None

\* faulty variant: table.insert in place of the upsert: the document always goes to
\* the end
TableInsert(table, doc, id) == Append(table, doc)

\* faulty variant: the upsert with a query that every document matches
TableUpsertAll(table, doc, id) ==
  IF Len(table) # 0 THEN [i \in 1..Len(table) |-> doc] ELSE Append(table, doc)

\* table.upsert(document, query.id == id): every matching document is
\* updated; with no match the document is inserted at the end
TableUpsert(table, doc, id) ==
  IF \E i \in 1..Len(table) : table[i].id = id
  THEN [i \in 1..Len(table) |-> IF table[i].id = id THEN doc ELSE table[i]]
  ELSE Append(table, doc)

\* faulty variant: the query of the remove inverted
TableRemoveOthers(table, id) == SelectSeq(table, LAMBDA d : d.id = id)

\* table.remove(query.id == id): every matching document is removed
TableRemove(table, id) == SelectSeq(table, LAMBDA d : d.id # id)

-----------------------------------------------------------------------------
(* Session Store (GameStateManager).  An operation maps a store state       *)
(* st = [db, clock] to the set of its possible outcomes: each datetime.now()*)
(* may read any value from the latest one on, and list(set) may come out in *)
(* any order.                                                               *)

Store(db, now) == [db |-> db, clock |-> now]
Return(st, v) == [st |-> st, raised |-> FALSE, ret |-> Some(v)]
Raise(st) == [st |-> st, raised |-> TRUE, ret |-> None]

\* two successive reads of datetime.now()
NowPairs(now) == {p \in (now..MaxClock) \X (now..MaxClock) : p[1] <= p[2]}

GetSession(db, session_id) ==
  LET found == TableGet(db, session_id) IN
  IF IsNone(found) THEN None ELSE Some(FromDict(Val(found)))

\* faulty variant: only last_played_at is refreshed
StampLastPlayedOnly(session, p) == [session EXCEPT !.last_played_at = p[2]]

\* the two assignments at the top of save_session
Stamp(session, p) == [session EXCEPT !.updated_at = p[1], !.last_played_at = p[2]]

\* save_session: the outcomes, each with the session object as stamped
SaveSession(st, session) ==
  {Return(Store(TableUpsert(st.db, SessionDict(Stamp(session, p), vl), session.id), p[2]),
          Stamp(session, p)) :
     p \in NowPairs(st.clock), vl \in Orders(session.visited_locations)}

DeleteSession(st, session_id) ==
  {Return(Store(TableRemove(st.db, session_id), st.clock), None)}

\* create_session with the id uuid4() returned
CreateSession(st, id, adventure_id, starting_location_id, player_name) ==
  UNION {SaveSession(Store(st.db, t),
                     NewSession(id, adventure_id, starting_location_id, player_name, t)) :
           t \in st.clock..MaxClock}

\* the in-memory change each mutator makes between its get and its save
\* faulty variant: the move that starts the visited set afresh
MoveMutateForgets(session, location_id) ==
  [session EXCEPT !.current_location_id = location_id,
                  !.visited_locations = {location_id}]

\* faulty variant: the move that does not record the visit
MoveMutateNoVisit(session, location_id) ==
  [session EXCEPT !.current_location_id = location_id]

MoveMutate(session, location_id) ==
  [session EXCEPT !.current_location_id = location_id,
                  !.visited_locations = @ \cup {location_id}]

\* faulty variant: the append without the membership check
AddItemMutateUnchecked(session, item_id) ==
  [session EXCEPT !.inventory = Append(@, item_id)]

AddItemMutate(session, item_id) ==
  IF item_id \notin Range(session.inventory)
  THEN [session EXCEPT !.inventory = Append(@, item_id)]
  ELSE session

RemoveItemMutate(session, item_id) ==
  [session EXCEPT !.inventory = RemoveFirst(@, item_id)]

\* faulty variant: the location's flags are started afresh at every set
SetLocationFlagMutateFresh(session, location_id, flag_name, value) ==
  [session EXCEPT !.location_states =
     DictSet(@, location_id, DictSet(EmptyDict, flag_name, value))]

SetLocationFlagMutate(session, location_id, flag_name, value) ==
  [session EXCEPT !.location_states =
     DictSet(@, location_id,
             DictSet(DictGet(@, location_id, EmptyDict), flag_name, value))]

SetGlobalFlagMutate(session, flag_name, value) ==
  [session EXCEPT !.global_flags = DictSet(@, flag_name, value)]

MoveToLocation(st, session_id, location_id) ==
  LET found == GetSession(st.db, session_id) IN
  IF IsNone(found) THEN {Raise(st)}
  ELSE SaveSession(st, MoveMutate(Val(found), location_id))

AddItem(st, session_id, item_id) ==
  LET found == GetSession(st.db, session_id) IN
  IF IsNone(found) THEN {Raise(st)}
  ELSE SaveSession(st, AddItemMutate(Val(found), item_id))

\* faulty variant: removing an item that is not held is a plain save
RemoveItemLenient(st, session_id, item_id) ==
  LET found == GetSession(st.db, session_id) IN
  IF IsNone(found) THEN {Raise(st)}
  ELSE SaveSession(st, RemoveItemMutate(Val(found), item_id))

RemoveItem(st, session_id, item_id) ==
  LET found == GetSession(st.db, session_id) IN
  IF IsNone(found) THEN {Raise(st)}
  ELSE IF item_id \notin Range(Val(found).inventory) THEN {Raise(st)}
  ELSE SaveSession(st, RemoveItemMutate(Val(found), item_id))

SetLocationFlag(st, session_id, location_id, flag_name, value) ==
  LET found == GetSession(st.db, session_id) IN
  IF IsNone(found) THEN {Raise(st)}
  ELSE SaveSession(st, SetLocationFlagMutate(Val(found), location_id, flag_name, value))

SetGlobalFlag(st, session_id, flag_name, value) ==
  LET found == GetSession(st.db, session_id) IN
  IF IsNone(found) THEN {Raise(st)}
  ELSE SaveSession(st, SetGlobalFlagMutate(Val(found), flag_name, value))

\* the accessors: get_session, the not-found ValueError, the value read
Read(st, session_id, F(_)) ==
  LET found == GetSession(st.db, session_id) IN
  IF IsNone(found) THEN {Raise(st)} ELSE {Return(st, F(Val(found)))}

\* session.location_states.get(location_id, {}).get(flag_name, False)
LocationFlagOf(session, location_id, flag_name) ==
  DictGet(DictGet(session.location_states, location_id, EmptyDict), flag_name, FALSE)

\* session.global_flags.get(flag_name, False)
GlobalFlagOf(session, flag_name) == DictGet(session.global_flags, flag_name, FALSE)

GetCurrentLocation(st, session_id) ==
  Read(st, session_id, LAMBDA s : s.current_location_id)

HasVisitedLocation(st, session_id, location_id) ==
  Read(st, session_id, LAMBDA s : location_id \in s.visited_locations)

HasItem(st, session_id, item_id) ==
  Read(st, session_id, LAMBDA s : item_id \in Range(s.inventory))

GetInventory(st, session_id) ==
  Read(st, session_id, LAMBDA s : s.inventory)

GetLocationFlag(st, session_id, location_id, flag_name) ==
  Read(st, session_id, LAMBDA s : LocationFlagOf(s, location_id, flag_name))

GetGlobalFlag(st, session_id, flag_name) ==
  Read(st, session_id, LAMBDA s : GlobalFlagOf(s, flag_name))

-----------------------------------------------------------------------------
(* Commands and results *)

CommandTypes ==
  {"move", "take", "drop", "examine", "use", "look", "inventory", "help", "unknown"}

\* confidence is kept in hundredths: 100 is the model's default 1.0
DefaultConfidence == 100

GameCommand(type, target, secondary_target, raw_input, error_message) ==
  [type |-> type, target |-> target, secondary_target |-> secondary_target,
   raw_input |-> raw_input, confidence |-> DefaultConfidence,
   error_message |-> error_message]

CommandResult(success, message, location_changed, inventory_changed) ==
  [success |-> success, message |-> message,
   location_changed |-> location_changed, inventory_changed |-> inventory_changed]

\* a handler's return without a store write, with the field defaults
Failure(st, message) == {Return(st, CommandResult(FALSE, message, FALSE, FALSE))}
Success(st, message) == {Return(st, CommandResult(TRUE, message, FALSE, FALSE))}

-----------------------------------------------------------------------------
(* Command Executor *)

GetAdventure(table, adventure_id) ==
  IF \E i \in 1..Len(table) : table[i].id = adventure_id
  THEN Some(table[CHOOSE i \in 1..Len(table) :
                    table[i].id = adventure_id /\ \A j \in 1..(i - 1) : table[j].id # adventure_id])
  ELSE None

GetLocation(adventure, location_id) ==
  IF location_id \in DOMAIN adventure.locations
  THEN Some(adventure.locations[location_id])
  ELSE None

ItemMatches(item, item_name_lower) ==
  item.visible /\ (\/ Lower(item.name) = item_name_lower
                   \/ Contains(item_name_lower, Lower(item.name))
                   \/ Lower(item.id) = item_name_lower)

\* faulty variant: an item whose name equals the target is preferred to the
\* first item that matches
FindItemRanked(location, item_name) ==
  LET item_name_lower == Lower(item_name)
      exact == SelectSeq(location.items,
                         LAMBDA it : it.visible /\ Lower(it.name) = item_name_lower)
      matching == SelectSeq(location.items, LAMBDA it : ItemMatches(it, item_name_lower))
  IN IF Len(exact) # 0 THEN Some(Head(exact))
     ELSE IF Len(matching) = 0 THEN None ELSE Some(Head(matching))

\* the first item of the location's list that matches, or None
FindItemInLocation(location, item_name) ==
  LET item_name_lower == Lower(item_name)
      matching == SelectSeq(location.items, LAMBDA it : ItemMatches(it, item_name_lower))
  IN IF Len(matching) = 0 THEN None ELSE Some(Head(matching))

VisibleItemNames(location) ==
  MapSeq(SelectSeq(location.items, LAMBDA it : it.visible), LAMBDA it : it.name)

\* name, description, exits and visible items of a location
LocationText(location) ==
  location.name \o <<"\n","\n">> \o location.description
  \o (IF Len(location.exits) # 0
      THEN <<"\n","\n","V","i","s","i","b","l","e"," ","e","x","i","t","s",":"," ">> \o CommaJoin(ExitKeys(location)) ELSE <<>>)
  \o (IF Len(VisibleItemNames(location)) # 0
      THEN <<"\n","\n","Y","o","u"," ","c","a","n"," ","s","e","e",":"," ">> \o CommaJoin(VisibleItemNames(location)) ELSE <<>>)

\* the message of a successful move
ArrivalText(adventure, target_location_id, direction) ==
  IF IsNone(GetLocation(adventure, target_location_id))
  THEN <<"Y","o","u"," ","g","o"," ">> \o direction \o <<".">>
  ELSE LocationText(Val(GetLocation(adventure, target_location_id)))

LockedText(direction, exit_data) ==
  IF ~Falsy(exit_data.required_item)
  THEN <<"T","h","e"," ">> \o direction \o <<" ","e","x","i","t"," ","i","s"," ","l","o","c","k","e","d","."," ","Y","o","u"," ","n","e","e","d"," ">> \o Val(exit_data.required_item) \o <<".">>
  ELSE <<"T","h","e"," ">> \o direction \o <<" ","e","x","i","t"," ","i","s"," ","l","o","c","k","e","d",".">>

\* faulty variant: the exit's own key taken for where it leads
ExitTargetDirection(exit_data) == exit_data.direction

\* exit_data.location_id: where the exit leads
ExitTarget(exit_data) == exit_data.location_id

\* faulty variant: the lock enforced only on exits that name a required item
ExitIsLockedWithItem(exit_data) ==
  exit_data.locked /\ ~IsNone(exit_data.required_item)

\* the guard in front of the move: the exit is locked
ExitIsLocked(exit_data) == exit_data.locked

\* faulty variant: an exit whose target is no location of the adventure is
\* refused
ExecuteMoveChecked(st, command, session, adventure, location) ==
  IF Falsy(command.target)
  THEN Failure(st, <<"W","h","i","c","h"," ","d","i","r","e","c","t","i","o","n","?"," ","A","v","a","i","l","a","b","l","e"," ","e","x","i","t","s",":"," ">> \o CommaJoin(ExitKeys(location)))
  ELSE LET found == ExitGet(location, Val(command.target))
           exit_data == Val(found) IN
    IF IsNone(found)
    THEN Failure(st, <<"Y","o","u"," ","c","a","n","'","t"," ","g","o"," ","t","h","a","t"," ","w","a","y","."," ","A","v","a","i","l","a","b","l","e"," ","e","x","i","t","s",":"," ">> \o CommaJoin(ExitKeys(location)))
    ELSE IF ExitIsLocked(exit_data)
    THEN Failure(st, LockedText(Val(command.target), exit_data))
    ELSE IF IsNone(GetLocation(adventure, ExitTarget(exit_data)))
    THEN Failure(st, <<"Y","o","u"," ","c","a","n","'","t"," ","g","o"," ","t","h","a","t"," ","w","a","y","."," ","A","v","a","i","l","a","b","l","e"," ","e","x","i","t","s",":"," ">> \o CommaJoin(ExitKeys(location)))
    ELSE {IF o.raised THEN Raise(o.st)
          ELSE Return(o.st, CommandResult(TRUE,
                 ArrivalText(adventure, ExitTarget(exit_data), Val(command.target)),
                 TRUE, FALSE)) :
            o \in MoveToLocation(st, session.id, ExitTarget(exit_data))}

\* faulty variant: a locked exit lets through a session that holds its
\* required item
ExecuteMoveWithKey(st, command, session, adventure, location) ==
  IF Falsy(command.target)
  THEN Failure(st, <<"W","h","i","c","h"," ","d","i","r","e","c","t","i","o","n","?"," ","A","v","a","i","l","a","b","l","e"," ","e","x","i","t","s",":"," ">> \o CommaJoin(ExitKeys(location)))
  ELSE LET found == ExitGet(location, Val(command.target))
           exit_data == Val(found) IN
    IF IsNone(found)
    THEN Failure(st, <<"Y","o","u"," ","c","a","n","'","t"," ","g","o"," ","t","h","a","t"," ","w","a","y","."," ","A","v","a","i","l","a","b","l","e"," ","e","x","i","t","s",":"," ">> \o CommaJoin(ExitKeys(location)))
    ELSE IF /\ ExitIsLocked(exit_data)
            /\ \/ IsNone(exit_data.required_item)
               \/ Val(exit_data.required_item) \notin Range(session.inventory)
    THEN Failure(st, LockedText(Val(command.target), exit_data))
    ELSE {IF o.raised THEN Raise(o.st)
          ELSE Return(o.st, CommandResult(TRUE,
                 ArrivalText(adventure, ExitTarget(exit_data), Val(command.target)),
                 TRUE, FALSE)) :
            o \in MoveToLocation(st, session.id, ExitTarget(exit_data))}

ExecuteMove(st, command, session, adventure, location) ==
  IF Falsy(command.target)
  THEN Failure(st, <<"W","h","i","c","h"," ","d","i","r","e","c","t","i","o","n","?"," ","A","v","a","i","l","a","b","l","e"," ","e","x","i","t","s",":"," ">> \o CommaJoin(ExitKeys(location)))
  ELSE LET found == ExitGet(location, Val(command.target))
           exit_data == Val(found) IN
    IF IsNone(found)
    THEN Failure(st, <<"Y","o","u"," ","c","a","n","'","t"," ","g","o"," ","t","h","a","t"," ","w","a","y","."," ","A","v","a","i","l","a","b","l","e"," ","e","x","i","t","s",":"," ">> \o CommaJoin(ExitKeys(location)))
    ELSE IF ExitIsLocked(exit_data)
    THEN Failure(st, LockedText(Val(command.target), exit_data))
    ELSE {IF o.raised THEN Raise(o.st)
          ELSE Return(o.st, CommandResult(TRUE,
                 ArrivalText(adventure, ExitTarget(exit_data), Val(command.target)),
                 TRUE, FALSE)) :
            o \in MoveToLocation(st, session.id, ExitTarget(exit_data))}

\* faulty variant: the already-held check left out
AlreadyHeldUnchecked(session, item) == FALSE

\* the guard in front of add_item: the item is already in the inventory the
\* executor read
AlreadyHeld(session, item) == item.id \in Range(session.inventory)

TakenFlag(item) == S_item_taken_ \o item.id

\* faulty variant: the item is added and no flag is set
TakeWritesNoFlag(st, session, location, item) ==
  AddItem(st, session.id, item.id)

\* add_item, then set_location_flag on what add_item left
TakeWrites(st, session, location, item) ==
  UNION {IF a.raised THEN {a}
         ELSE SetLocationFlag(a.st, session.id, location.id, TakenFlag(item), TRUE) :
           a \in AddItem(st, session.id, item.id)}

\* faulty variant: the item_taken flag written as soon as the item is matched, before
\* the takeable and already-held checks
ExecuteTakeFlagFirst(st, command, session, adventure, location) ==
  IF Falsy(command.target)
  THEN IF Len(VisibleItemNames(location)) # 0
       THEN Failure(st, <<"W","h","a","t"," ","d","o"," ","y","o","u"," ","w","a","n","t"," ","t","o"," ","t","a","k","e","?"," ","Y","o","u"," ","c","a","n"," ","s","e","e",":"," ">> \o CommaJoin(VisibleItemNames(location)))
       ELSE Failure(st, <<"T","h","e","r","e","'","s"," ","n","o","t","h","i","n","g"," ","h","e","r","e"," ","t","o"," ","t","a","k","e",".">>)
  ELSE LET found == FindItemInLocation(location, Val(command.target))
           item == Val(found) IN
    IF IsNone(found)
    THEN Failure(st, <<"Y","o","u"," ","d","o","n","'","t"," ","s","e","e"," ","'">> \o Val(command.target) \o <<"'"," ","h","e","r","e",".">>)
    ELSE UNION {
      IF f.raised THEN {Raise(f.st)}
      ELSE IF ~item.takeable
      THEN Failure(f.st, <<"Y","o","u"," ","c","a","n","'","t"," ","t","a","k","e"," ","t","h","e"," ">> \o item.name \o <<".">>)
      ELSE IF AlreadyHeld(session, item)
      THEN Failure(f.st, <<"Y","o","u"," ","a","l","r","e","a","d","y"," ","h","a","v","e"," ","t","h","e"," ">> \o item.name \o <<".">>)
      ELSE {IF o.raised THEN Raise(o.st)
            ELSE Return(o.st, CommandResult(TRUE, <<"Y","o","u"," ","t","a","k","e"," ","t","h","e"," ">> \o item.name \o <<".">>,
                                            FALSE, TRUE)) :
              o \in AddItem(f.st, session.id, item.id)} :
        f \in SetLocationFlag(st, session.id, location.id, TakenFlag(item), TRUE)}

\* faulty variant: an item whose item_taken flag is set at the location is no
\* longer found there
ExecuteTakeOnce(st, command, session, adventure, location) ==
  IF Falsy(command.target)
  THEN IF Len(VisibleItemNames(location)) # 0
       THEN Failure(st, <<"W","h","a","t"," ","d","o"," ","y","o","u"," ","w","a","n","t"," ","t","o"," ","t","a","k","e","?"," ","Y","o","u"," ","c","a","n"," ","s","e","e",":"," ">> \o CommaJoin(VisibleItemNames(location)))
       ELSE Failure(st, <<"T","h","e","r","e","'","s"," ","n","o","t","h","i","n","g"," ","h","e","r","e"," ","t","o"," ","t","a","k","e",".">>)
  ELSE LET found == FindItemInLocation(location, Val(command.target))
           item == Val(found) IN
    IF IsNone(found)
    THEN Failure(st, <<"Y","o","u"," ","d","o","n","'","t"," ","s","e","e"," ","'">> \o Val(command.target) \o <<"'"," ","h","e","r","e",".">>)
    ELSE IF LocationFlagOf(session, location.id, TakenFlag(item))
    THEN Failure(st, <<"Y","o","u"," ","d","o","n","'","t"," ","s","e","e"," ","'">> \o Val(command.target) \o <<"'"," ","h","e","r","e",".">>)
    ELSE IF ~item.takeable
    THEN Failure(st, <<"Y","o","u"," ","c","a","n","'","t"," ","t","a","k","e"," ","t","h","e"," ">> \o item.name \o <<".">>)
    ELSE IF AlreadyHeld(session, item)
    THEN Failure(st, <<"Y","o","u"," ","a","l","r","e","a","d","y"," ","h","a","v","e"," ","t","h","e"," ">> \o item.name \o <<".">>)
    ELSE {IF o.raised THEN Raise(o.st)
          ELSE Return(o.st, CommandResult(TRUE, <<"Y","o","u"," ","t","a","k","e"," ","t","h","e"," ">> \o item.name \o <<".">>,
                                          FALSE, TRUE)) :
            o \in TakeWrites(st, session, location, item)}

ExecuteTake(st, command, session, adventure, location) ==
  IF Falsy(command.target)
  THEN IF Len(VisibleItemNames(location)) # 0
       THEN Failure(st, <<"W","h","a","t"," ","d","o"," ","y","o","u"," ","w","a","n","t"," ","t","o"," ","t","a","k","e","?"," ","Y","o","u"," ","c","a","n"," ","s","e","e",":"," ">> \o CommaJoin(VisibleItemNames(location)))
       ELSE Failure(st, <<"T","h","e","r","e","'","s"," ","n","o","t","h","i","n","g"," ","h","e","r","e"," ","t","o"," ","t","a","k","e",".">>)
  ELSE LET found == FindItemInLocation(location, Val(command.target))
           item == Val(found) IN
    IF IsNone(found)
    THEN Failure(st, <<"Y","o","u"," ","d","o","n","'","t"," ","s","e","e"," ","'">> \o Val(command.target) \o <<"'"," ","h","e","r","e",".">>)
    ELSE IF ~item.takeable
    THEN Failure(st, <<"Y","o","u"," ","c","a","n","'","t"," ","t","a","k","e"," ","t","h","e"," ">> \o item.name \o <<".">>)
    ELSE IF AlreadyHeld(session, item)
    THEN Failure(st, <<"Y","o","u"," ","a","l","r","e","a","d","y"," ","h","a","v","e"," ","t","h","e"," ">> \o item.name \o <<".">>)
    ELSE {IF o.raised THEN Raise(o.st)
          ELSE Return(o.st, CommandResult(TRUE, <<"Y","o","u"," ","t","a","k","e"," ","t","h","e"," ">> \o item.name \o <<".">>,
                                          FALSE, TRUE)) :
            o \in TakeWrites(st, session, location, item)}

\* faulty variant: the last matching inventory id, not the first
FindLastInInventory(session, target) ==
  LET target_lower == Lower(target)
      matching == SelectSeq(session.inventory,
                            LAMBDA id : Contains(target_lower, Lower(id)))
  IN IF Len(matching) = 0 THEN None ELSE Some(matching[Len(matching)])

\* the first inventory id that contains the target, case-insensitively
FindInInventory(session, target) ==
  LET target_lower == Lower(target)
      matching == SelectSeq(session.inventory,
                            LAMBDA id : Contains(target_lower, Lower(id)))
  IN IF Len(matching) = 0 THEN None ELSE Some(Head(matching))

\* `if not item_id`: no match, or the matched id is the empty string
NoDropMatch(found) == Falsy(found)

\* faulty variant: the drop that removes the item and reports the field
\* defaults, inventory_changed=False
ExecuteDropUnflagged(st, command, session, adventure, location) ==
  IF Falsy(command.target)
  THEN IF Len(session.inventory) # 0
       THEN Failure(st, <<"W","h","a","t"," ","d","o"," ","y","o","u"," ","w","a","n","t"," ","t","o"," ","d","r","o","p","?"," ","Y","o","u","'","r","e"," ","c","a","r","r","y","i","n","g",":"," ">> \o CommaJoin(session.inventory))
       ELSE Failure(st, <<"Y","o","u","'","r","e"," ","n","o","t"," ","c","a","r","r","y","i","n","g"," ","a","n","y","t","h","i","n","g",".">>)
  ELSE LET found == FindInInventory(session, Val(command.target)) IN
    IF NoDropMatch(found)
    THEN Failure(st, <<"Y","o","u"," ","d","o","n","'","t"," ","h","a","v","e"," ","'">> \o Val(command.target) \o <<"'",".">>)
    ELSE {IF o.raised THEN Raise(o.st)
          ELSE Return(o.st, CommandResult(TRUE, <<"Y","o","u"," ","d","r","o","p"," ","t","h","e"," ">> \o Val(found) \o <<".">>,
                                          FALSE, FALSE)) :
            o \in RemoveItem(st, session.id, Val(found))}

ExecuteDrop(st, command, session, adventure, location) ==
  IF Falsy(command.target)
  THEN IF Len(session.inventory) # 0
       THEN Failure(st, <<"W","h","a","t"," ","d","o"," ","y","o","u"," ","w","a","n","t"," ","t","o"," ","d","r","o","p","?"," ","Y","o","u","'","r","e"," ","c","a","r","r","y","i","n","g",":"," ">> \o CommaJoin(session.inventory))
       ELSE Failure(st, <<"Y","o","u","'","r","e"," ","n","o","t"," ","c","a","r","r","y","i","n","g"," ","a","n","y","t","h","i","n","g",".">>)
  ELSE LET found == FindInInventory(session, Val(command.target)) IN
    IF NoDropMatch(found)
    THEN Failure(st, <<"Y","o","u"," ","d","o","n","'","t"," ","h","a","v","e"," ","'">> \o Val(command.target) \o <<"'",".">>)
    ELSE {IF o.raised THEN Raise(o.st)
          ELSE Return(o.st, CommandResult(TRUE, <<"Y","o","u"," ","d","r","o","p"," ","t","h","e"," ">> \o Val(found) \o <<".">>,
                                          FALSE, TRUE)) :
            o \in RemoveItem(st, session.id, Val(found))}

ExecuteExamine(st, command, session, adventure, location) ==
  IF Falsy(command.target)
  THEN Failure(st, <<"W","h","a","t"," ","d","o"," ","y","o","u"," ","w","a","n","t"," ","t","o"," ","e","x","a","m","i","n","e","?">>)
  ELSE LET item == FindItemInLocation(location, Val(command.target))
           held == FindInInventory(session, Val(command.target)) IN
    IF ~IsNone(item)
    THEN Success(st, Val(item).name \o <<":"," ">> \o Val(item).description)
    ELSE IF ~IsNone(held)
    THEN Success(st, <<"Y","o","u"," ","e","x","a","m","i","n","e"," ","t","h","e"," ">> \o Val(held) \o <<".">>)
    ELSE Failure(st, <<"Y","o","u"," ","d","o","n","'","t"," ","s","e","e"," ","'">> \o Val(command.target) \o <<"'"," ","h","e","r","e",".">>)

\* faulty variant: use with the fuzzy inventory match of drop and examine
ExecuteUseFuzzy(st, command, session, adventure, location) ==
  IF Falsy(command.target)
  THEN Failure(st, <<"W","h","a","t"," ","d","o"," ","y","o","u"," ","w","a","n","t"," ","t","o"," ","u","s","e","?">>)
  ELSE IF IsNone(FindInInventory(session, Val(command.target)))
  THEN Failure(st, <<"Y","o","u"," ","d","o","n","'","t"," ","h","a","v","e"," ","'">> \o Val(command.target) \o <<"'",".">>)
  ELSE IF ~Falsy(command.secondary_target)
  THEN Success(st, <<"Y","o","u"," ","t","r","y"," ","t","o"," ","u","s","e"," ","t","h","e"," ">> \o Val(command.target) \o <<" ","o","n"," ","t","h","e"," ">>
                   \o Val(command.secondary_target) \o <<","," ","b","u","t"," ","n","o","t","h","i","n","g"," ","h","a","p","p","e","n","s",".">>)
  ELSE Success(st, <<"Y","o","u"," ","u","s","e"," ","t","h","e"," ">> \o Val(command.target) \o <<".">>)

ExecuteUse(st, command, session, adventure, location) ==
  IF Falsy(command.target)
  THEN Failure(st, <<"W","h","a","t"," ","d","o"," ","y","o","u"," ","w","a","n","t"," ","t","o"," ","u","s","e","?">>)
  ELSE IF Val(command.target) \notin Range(session.inventory)
  THEN Failure(st, <<"Y","o","u"," ","d","o","n","'","t"," ","h","a","v","e"," ","'">> \o Val(command.target) \o <<"'",".">>)
  ELSE IF ~Falsy(command.secondary_target)
  THEN Success(st, <<"Y","o","u"," ","t","r","y"," ","t","o"," ","u","s","e"," ","t","h","e"," ">> \o Val(command.target) \o <<" ","o","n"," ","t","h","e"," ">>
                   \o Val(command.secondary_target) \o <<","," ","b","u","t"," ","n","o","t","h","i","n","g"," ","h","a","p","p","e","n","s",".">>)
  ELSE Success(st, <<"Y","o","u"," ","u","s","e"," ","t","h","e"," ">> \o Val(command.target) \o <<".">>)

\* faulty variant: a look that saves the session it was given, refreshing its
\* timestamps
ExecuteLookTouching(st, command, session, adventure, location) ==
  {Return(o.st, CommandResult(TRUE, LocationText(location), FALSE, FALSE)) :
     o \in SaveSession(st, session)}

ExecuteLook(st, command, session, adventure, location) ==
  Success(st, LocationText(location))

ExecuteInventory(st, command, session, adventure, location) ==
  IF Len(session.inventory) = 0
  THEN Success(st, <<"Y","o","u"," ","a","r","e","n","'","t"," ","c","a","r","r","y","i","n","g"," ","a","n","y","t","h","i","n","g",".">>)
  ELSE Success(st, <<"Y","o","u"," ","a","r","e"," ","c","a","r","r","y","i","n","g",":"," ">> \o CommaJoin(session.inventory))

HelpText == <<"A","v","a","i","l","a","b","l","e"," ","c","o","m","m","a","n","d","s",":","\n","-"," ","M","o","v","e","m","e","n","t",":"," ","g","o"," ","[","d","i","r","e","c","t","i","o","n","]",","," ","n","o","r","t","h",","," ","s","o","u","t","h",","," ","e","a","s","t",","," ","w","e","s","t",","," ","u","p",","," ","d","o","w","n","\n","-"," ","I","t","e","m","s",":"," ","t","a","k","e"," ","[","i","t","e","m","]",","," ","d","r","o","p"," ","[","i","t","e","m","]",","," ","e","x","a","m","i","n","e"," ","[","i","t","e","m","]",","," ","u","s","e"," ","[","i","t","e","m","]","\n","-"," ","I","n","f","o","r","m","a","t","i","o","n",":"," ","l","o","o","k",","," ","i","n","v","e","n","t","o","r","y"," ","(","o","r"," ","i",")","\n","-"," ","O","t","h","e","r",":"," ","h","e","l","p","\n","\n","Y","o","u"," ","c","a","n"," ","u","s","e"," ","n","a","t","u","r","a","l"," ","l","a","n","g","u","a","g","e","!"," ","T","r","y"," ","t","h","i","n","g","s"," ","l","i","k","e",":","\n","-"," ","\"","p","i","c","k"," ","u","p"," ","t","h","e"," ","c","a","n","d","l","e","\"","\n","-"," ","\"","w","a","l","k"," ","t","o"," ","t","h","e"," ","g","r","a","v","e","y","a","r","d","\"","\n","-"," ","\"","c","h","e","c","k"," ","m","y"," ","i","n","v","e","n","t","o","r","y","\"","\n">>

ExecuteHelp(st, command, session, adventure, location) ==
  Success(st, HelpText)

ExecuteUnknown(st, command, session, adventure, location) ==
  IF ~Falsy(command.error_message)
  THEN Failure(st, Val(command.error_message))
  ELSE Failure(st, <<"I"," ","d","o","n","'","t"," ","u","n","d","e","r","s","t","a","n","d"," ","'">> \o command.raw_input \o <<"'","."," ","T","y","p","e"," ","'","h","e","l","p","'"," ","f","o","r"," ","a","s","s","i","s","t","a","n","c","e",".">>)

\* the handler table of execute
Dispatch(st, command, session, adventure, location) ==
  CASE command.type = "move" -> ExecuteMove(st, command, session, adventure, location)
    [] command.type = "take" -> ExecuteTake(st, command, session, adventure, location)
    [] command.type = "drop" -> ExecuteDrop(st, command, session, adventure, location)
    [] command.type = "examine" -> ExecuteExamine(st, command, session, adventure, location)
    [] command.type = "use" -> ExecuteUse(st, command, session, adventure, location)
    [] command.type = "look" -> ExecuteLook(st, command, session, adventure, location)
    [] command.type = "inventory" -> ExecuteInventory(st, command, session, adventure, location)
    [] command.type = "help" -> ExecuteHelp(st, command, session, adventure, location)
    [] command.type = "unknown" -> ExecuteUnknown(st, command, session, adventure, location)

\* faulty variant: execute without the check of the current location: the handler is
\* entered with no location and its first attribute access raises
ExecuteUnguarded(st, table, command, session_id) ==
  LET found == GetSession(st.db, session_id) IN
  IF IsNone(found) THEN Failure(st, <<"S","e","s","s","i","o","n"," ","n","o","t"," ","f","o","u","n","d">>)
  ELSE LET session == Val(found)
           adventure == GetAdventure(table, session.adventure_id) IN
    IF IsNone(adventure) THEN Failure(st, <<"A","d","v","e","n","t","u","r","e"," ","d","a","t","a"," ","n","o","t"," ","f","o","u","n","d">>)
    ELSE LET location == GetLocation(Val(adventure), session.current_location_id) IN
      IF IsNone(location) THEN {Raise(st)}
      ELSE Dispatch(st, command, session, Val(adventure), Val(location))

\* CommandExecutor.execute: the set of its outcomes from store state st
Execute(st, table, command, session_id) ==
  LET found == GetSession(st.db, session_id) IN
  IF IsNone(found) THEN Failure(st, <<"S","e","s","s","i","o","n"," ","n","o","t"," ","f","o","u","n","d">>)
  ELSE LET session == Val(found)
           adventure == GetAdventure(table, session.adventure_id) IN
    IF IsNone(adventure) THEN Failure(st, <<"A","d","v","e","n","t","u","r","e"," ","d","a","t","a"," ","n","o","t"," ","f","o","u","n","d">>)
    ELSE LET location == GetLocation(Val(adventure), session.current_location_id) IN
      IF IsNone(location) THEN Failure(st, <<"C","u","r","r","e","n","t"," ","l","o","c","a","t","i","o","n"," ","n","o","t"," ","f","o","u","n","d">>)
      ELSE Dispatch(st, command, session, Val(adventure), Val(location))

-----------------------------------------------------------------------------
(* Inputs of the checks *)

\* the one session id uuid4() can hand out, and an id it never hands out
SessionIds == {"s1"}
MissingId == "s0"
CallIds == SessionIds \cup {MissingId}

Callers == {1, 2}

Targets ==
  {None, Some(<<>>), Some(S_north), Some(S_east), Some(S_south), Some(S_gate),
   Some(S_out), Some(S_key), Some(S_Key), Some(S_KE), Some(S_brass),
   Some(S_rose), Some(S_e), Some(S_gem), Some(S_xyzzy)}

Commands ==
  {GameCommand(t, x, None, S_xyzzy, None) :
     t \in {"move", "take", "drop", "examine", "use"}, x \in Targets}
  \cup {GameCommand("use", Some(x), Some(S_door), S_xyzzy, None) : x \in {S_key, S_Key}}
  \cup {GameCommand(t, None, None, S_xyzzy, None) : t \in {"look", "inventory", "help"}}
  \cup {GameCommand("unknown", None, None, S_xyzzy, m) :
          m \in {None, Some(<<>>), Some(S_Huh)}}

-----------------------------------------------------------------------------
(* State machine: API calls applied one at a time *)

Idle == \A c \in Callers : pc[c] = "idle"

NoCall == [op |-> "none", sid |-> MissingId, args |-> <<>>]
NoResult == [raised |-> FALSE, ret |-> None]

Init ==
  /\ adventures = World
  /\ sessions = <<>>
  /\ issued = {}
  /\ origin = EmptyDict
  /\ clock = 0
  /\ pre = <<>>
  /\ call = NoCall
  /\ result = NoResult
  /\ pc = [c \in Callers |-> "idle"]
  /\ frame = [c \in Callers |-> <<>>]
  /\ asked = 0

\* faulty variant: an execute call also takes out of the adventure records the
\* items that some stored inventory holds
Consumed(table, db) ==
  LET held == UNION {Range(db[i].inventory) : i \in 1..Len(db)} IN
  [a \in 1..Len(table) |->
     [table[a] EXCEPT !.locations =
        [l \in DOMAIN table[a].locations |->
           [table[a].locations[l] EXCEPT !.items =
              SelectSeq(@, LAMBDA it : it.id \notin held)]]]]

ApplyConsuming(op, sid, args, outcomes) ==
  /\ Idle
  /\ call = NoCall
  /\ \E o \in outcomes :
       /\ sessions' = o.st.db
       /\ clock' = o.st.clock
       /\ result' = [raised |-> o.raised, ret |-> o.ret]
       /\ adventures' = IF op = "execute" THEN Consumed(adventures, o.st.db)
                        ELSE adventures
  /\ pre' = sessions
  /\ call' = [op |-> op, sid |-> sid, args |-> args]
  /\ UNCHANGED <<pc, frame, asked>>

\* One whole API call, from a state in which no call is being answered: some
\* outcome o of the operation becomes the new state, and the call, the table
\* it found and what it answers are on record until Complete.
Apply(op, sid, args, outcomes) ==
  /\ Idle
  /\ call = NoCall
  /\ \E o \in outcomes :
       /\ sessions' = o.st.db
       /\ clock' = o.st.clock
       /\ result' = [raised |-> o.raised, ret |-> o.ret]
  /\ pre' = sessions
  /\ call' = [op |-> op, sid |-> sid, args |-> args]
  /\ UNCHANGED <<adventures, pc, frame, asked>>

\* the caller has its answer: the record of the call is dropped
Complete ==
  /\ call # NoCall
  /\ pre' = <<>>
  /\ call' = NoCall
  /\ result' = NoResult
  /\ asked' = 0
  /\ UNCHANGED <<adventures, sessions, issued, origin, clock, pc, frame>>

CreateSessionCall(id, adventure_id, starting_location_id, player_name) ==
  /\ id \notin issued
  /\ issued' = issued \cup {id}
  /\ origin' = DictSet(origin, id, starting_location_id)
  /\ Apply("create_session", id, <<adventure_id, starting_location_id, player_name>>,
           CreateSession(Store(sessions, clock), id, adventure_id,
                         starting_location_id, player_name))

\* a new game of an adventure of the table starts at its starting location
NewGame ==
  \E id \in SessionIds, i \in 1..Len(adventures), name \in {None, Some(S_Bob)} :
    CreateSessionCall(id, adventures[i].id, adventures[i].starting_location_id, name)

ExecuteCall ==
  \E sid \in CallIds, command \in Commands :
    /\ Apply("execute", sid, <<command>>,
             Execute(Store(sessions, clock), adventures, command, sid))
    /\ UNCHANGED <<issued, origin>>

Next == NewGame \/ ExecuteCall \/ Complete

Spec == Init /\ [][Next]_vars

-----------------------------------------------------------------------------
(* State machine: the game plus the Session Store's own operations, still    *)
(* one call at a time.  create_session takes any adventure id and starting   *)
(* location, as GameStateManager does.                                       *)

\* "ghost" is the id of no adventure of the table
StartChoices == {<<S_manor, S_hall>>, <<S_trap, S_cell>>, <<S_ghost, S_hall>>}

MoveChoices == {S_garden}
AddChoices == {S_key}
RemoveChoices == {S_key}
FlagLocations == {S_hall}
LocationFlagNames == {S_item_taken_ \o S_key}
GlobalFlagNames == {S_won}
FlagValues == {TRUE}

CreateAny ==
  \E id \in SessionIds, c \in StartChoices :
    CreateSessionCall(id, c[1], c[2], None)

MoveToLocationCall ==
  \E sid \in CallIds, location_id \in MoveChoices :
    /\ Apply("move_to_location", sid, <<location_id>>,
             MoveToLocation(Store(sessions, clock), sid, location_id))
    /\ UNCHANGED <<issued, origin>>

AddItemCall ==
  \E sid \in CallIds, item_id \in AddChoices :
    /\ Apply("add_item", sid, <<item_id>>,
             AddItem(Store(sessions, clock), sid, item_id))
    /\ UNCHANGED <<issued, origin>>

RemoveItemCall ==
  \E sid \in CallIds, item_id \in RemoveChoices :
    /\ Apply("remove_item", sid, <<item_id>>,
             RemoveItem(Store(sessions, clock), sid, item_id))
    /\ UNCHANGED <<issued, origin>>

SetLocationFlagCall ==
  \E sid \in CallIds, location_id \in FlagLocations,
     flag_name \in LocationFlagNames, value \in FlagValues :
    /\ Apply("set_location_flag", sid, <<location_id, flag_name, value>>,
             SetLocationFlag(Store(sessions, clock), sid, location_id, flag_name, value))
    /\ UNCHANGED <<issued, origin>>

SetGlobalFlagCall ==
  \E sid \in CallIds, flag_name \in GlobalFlagNames, value \in FlagValues :
    /\ Apply("set_global_flag", sid, <<flag_name, value>>,
             SetGlobalFlag(Store(sessions, clock), sid, flag_name, value))
    /\ UNCHANGED <<issued, origin>>

StoreNext ==
  \/ CreateAny
  \/ ExecuteCall
  \/ MoveToLocationCall
  \/ AddItemCall
  \/ RemoveItemCall
  \/ SetLocationFlagCall
  \/ SetGlobalFlagCall
  \/ Complete

StoreSpec == Init /\ [][StoreNext]_vars

-----------------------------------------------------------------------------
(* What the checks read off a state in which a call is being answered *)

Has(table, id) == ~IsNone(TableGet(table, id))
Doc(table, id) == Val(TableGet(table, id))

Executed == call.op = "execute"
Cmd == call.args[1]
Answer == Val(result.ret)
Returned == ~result.raised /\ ~IsNone(result.ret)

\* the session, adventure and location an execute call found before it ran
SessionBefore == Val(GetSession(pre, call.sid))
AdventureBefore == Val(GetAdventure(adventures, SessionBefore.adventure_id))
LocationBefore == Val(GetLocation(AdventureBefore, SessionBefore.current_location_id))
SessionAfter == Val(GetSession(sessions, call.sid))

\* the three lookups of execute all succeeded on the table the call found
Resolved ==
  /\ Has(pre, call.sid)
  /\ ~IsNone(GetAdventure(adventures, SessionBefore.adventure_id))
  /\ ~IsNone(GetLocation(AdventureBefore, SessionBefore.current_location_id))

\* an execute call of the given command type that reached its handler
Handled(type) == Executed /\ Cmd.type = type /\ Resolved

-----------------------------------------------------------------------------
(* C1: in an adventure all of whose exits lead to keys of its location map,  *)
(* every stored session that was created at the adventure's starting         *)
(* location and then only executed commands has a current_location_id that   *)
(* is a key of that map.                                                     *)

C1_CurrentLocationIsAKey ==
  \A i \in 1..Len(sessions) :
    LET adventure == GetAdventure(adventures, sessions[i].adventure_id) IN
    (~IsNone(adventure) /\ WellFormed(Val(adventure)))
      => sessions[i].current_location_id \in DOMAIN Val(adventure).locations

C1_Witness ==
  /\ Handled("move") /\ Returned /\ Answer.success
  /\ WellFormed(AdventureBefore)
  /\ SessionAfter.current_location_id # SessionBefore.current_location_id

-----------------------------------------------------------------------------
(* C4: a take whose target resolves to a visible, takeable item of the       *)
(* current location whose id is already in the inventory returns             *)
(* success=false with "already have" in the message and                      *)
(* inventory_changed=false, and leaves the table as it was; and right after  *)
(* a successful take the same take can only end this way.                    *)

AlreadyHaveFailure(o, st) ==
  /\ ~o.raised
  /\ ~Val(o.ret).success
  /\ Contains(<<"a","l","r","e","a","d","y"," ","h","a","v","e">>, Val(o.ret).message)
  /\ ~Val(o.ret).inventory_changed
  /\ o.st.db = st.db

TakeOfHeldItem ==
  /\ Handled("take")
  /\ ~Falsy(Cmd.target)
  /\ ~IsNone(FindItemInLocation(LocationBefore, Val(Cmd.target)))
  /\ Val(FindItemInLocation(LocationBefore, Val(Cmd.target))).takeable
  /\ Val(FindItemInLocation(LocationBefore, Val(Cmd.target))).id
       \in Range(SessionBefore.inventory)

-----------------------------------------------------------------------------
(* C5: look, inventory, examine, use, help and unknown leave the stored      *)
(* session record exactly as it was, timestamps included, whether they       *)
(* succeed or fail.                                                          *)

ReadOnlyTypes == {"look", "inventory", "examine", "use", "help", "unknown"}

C5_ReadOnlyCommandsWriteNothing ==
  (Executed /\ Cmd.type \in ReadOnlyTypes) => (Returned /\ sessions = pre)

C5_Witness ==
  /\ Handled("use") /\ Returned /\ Answer.success
  /\ SessionBefore.updated_at < clock

-----------------------------------------------------------------------------
(* C7: a move whose target is a key of the current location's exits, the     *)
(* exit not locked, returns success=true and location_changed=true; the      *)
(* stored session is then at the exit's target, its visited set is the old   *)
(* one plus that id, and inventory and flags are as before.                  *)

MoveThroughOpenExit ==
  /\ Handled("move")
  /\ ~Falsy(Cmd.target)
  /\ \E i \in 1..Len(LocationBefore.exits) :
       /\ LocationBefore.exits[i][1] = Val(Cmd.target)
       /\ ~LocationBefore.exits[i][2].locked

OpenExitTarget ==
  LocationBefore.exits[CHOOSE i \in 1..Len(LocationBefore.exits) :
                         LocationBefore.exits[i][1] = Val(Cmd.target)][2].location_id

C7_OpenExitMoves ==
  MoveThroughOpenExit =>
    /\ Returned /\ Answer.success /\ Answer.location_changed
    /\ Has(sessions, call.sid)
    /\ SessionAfter.current_location_id = OpenExitTarget
    /\ SessionAfter.visited_locations =
         SessionBefore.visited_locations \cup {OpenExitTarget}
    /\ SessionAfter.inventory = SessionBefore.inventory
    /\ SessionAfter.location_states = SessionBefore.location_states
    /\ SessionAfter.global_flags = SessionBefore.global_flags

C7_Witness ==
  /\ MoveThroughOpenExit
  /\ OpenExitTarget \notin SessionBefore.visited_locations
  /\ Len(SessionBefore.inventory) > 0

-----------------------------------------------------------------------------
(* C8: a move whose target is a key of the current location's exits, the     *)
(* exit locked, returns success=false with "locked" in the message (and the  *)
(* required_item, when the exit has one) and location_changed=false, and     *)
(* leaves current_location_id and visited_locations as they were.            *)

MoveAtLockedExit ==
  /\ Handled("move")
  /\ ~Falsy(Cmd.target)
  /\ \E i \in 1..Len(LocationBefore.exits) :
       /\ LocationBefore.exits[i][1] = Val(Cmd.target)
       /\ LocationBefore.exits[i][2].locked

LockedExit ==
  LocationBefore.exits[CHOOSE i \in 1..Len(LocationBefore.exits) :
                         LocationBefore.exits[i][1] = Val(Cmd.target)][2]

C8_LockedExitHolds ==
  MoveAtLockedExit =>
    /\ Returned /\ ~Answer.success /\ ~Answer.location_changed
    /\ Contains(<<"l","o","c","k","e","d">>, Answer.message)
    /\ ~IsNone(LockedExit.required_item) =>
         Contains(Val(LockedExit.required_item), Answer.message)
    /\ Has(sessions, call.sid)
    /\ SessionAfter.current_location_id = SessionBefore.current_location_id
    /\ SessionAfter.visited_locations = SessionBefore.visited_locations

C8_Witness ==
  /\ MoveAtLockedExit
  /\ ~IsNone(LockedExit.required_item)
  /\ Val(LockedExit.required_item) \in Range(SessionBefore.inventory)

-----------------------------------------------------------------------------
(* C10: an execute call that returns success=false has written nothing: the  *)
(* table is as the call found it.                                            *)

C10_FailureWritesNothing ==
  (Executed /\ Returned /\ ~Answer.success) => sessions = pre

C10_Witness ==
  /\ Handled("drop") /\ Returned /\ ~Answer.success
  /\ ~Falsy(Cmd.target)
  /\ Len(SessionBefore.inventory) > 0
  /\ SessionBefore.updated_at < clock

-----------------------------------------------------------------------------
(* C2: under execute calls and the five Session Store mutators, applied one  *)
(* at a time, no stored visited set ever loses a member from one state to    *)
(* the next, and every stored session's visited set holds the location the   *)
(* session was created at.                                                   *)

C2_VisitedNeverShrinks ==
  /\ \A i \in 1..Len(pre) :
       Has(sessions, pre[i].id) =>
         Range(pre[i].visited_locations)
           \subseteq Range(Doc(sessions, pre[i].id).visited_locations)
  /\ \A i \in 1..Len(sessions) :
       origin[sessions[i].id] \in Range(sessions[i].visited_locations)

C2_Witness ==
  /\ Handled("move") /\ Returned /\ Answer.success
  /\ Cardinality(SessionBefore.visited_locations) > 1
  /\ SessionAfter.current_location_id = origin[call.sid]
  /\ SessionAfter.visited_locations = SessionBefore.visited_locations

-----------------------------------------------------------------------------
(* C9: when the session id is not in the table, or the session's adventure   *)
(* id is not in the adventure table, or its current_location_id is not a key *)
(* of the adventure's locations, execute raises nothing and returns the      *)
(* matching not-found failure with both changed flags false, whatever the    *)
(* command, and the table is as the call found it.                           *)

NotFoundMessage ==
  IF ~Has(pre, call.sid) THEN <<"S","e","s","s","i","o","n"," ","n","o","t"," ","f","o","u","n","d">>
  ELSE IF IsNone(GetAdventure(adventures, SessionBefore.adventure_id))
  THEN <<"A","d","v","e","n","t","u","r","e"," ","d","a","t","a"," ","n","o","t"," ","f","o","u","n","d">>
  ELSE <<"C","u","r","r","e","n","t"," ","l","o","c","a","t","i","o","n"," ","n","o","t"," ","f","o","u","n","d">>

C9_NotFoundIsAFailedResult ==
  (Executed /\ ~Resolved) =>
    /\ Returned
    /\ Answer = CommandResult(FALSE, NotFoundMessage, FALSE, FALSE)
    /\ sessions = pre

C9_Witness ==
  /\ Executed /\ Has(pre, call.sid)
  /\ ~IsNone(GetAdventure(adventures, SessionBefore.adventure_id))
  /\ IsNone(GetLocation(AdventureBefore, SessionBefore.current_location_id))
  /\ Cmd.type = "take" /\ ~Falsy(Cmd.target)

C9_SessionMissingReached == Executed /\ ~Has(pre, call.sid) /\ Len(pre) > 0
C9_AdventureMissingReached ==
  /\ Executed /\ Has(pre, call.sid)
  /\ IsNone(GetAdventure(adventures, SessionBefore.adventure_id))

-----------------------------------------------------------------------------
(* State machine: the Session Store's save, get and delete called directly   *)
(* with session objects the caller built itself.                             *)

VisitedChoices == {{}, {S_hall}, {S_hall, S_garden}}
InventoryChoices == {<<>>, <<S_key, S_rose>>, <<S_rose, S_key>>}
LocationStateChoices ==
  {EmptyDict, S_hall :> ((S_item_taken_ \o S_key) :> TRUE)}
GlobalFlagChoices == {EmptyDict, S_won :> FALSE}

\* GameSession(...) with every field given but the three timestamps, which
\* default to datetime.now() at construction
BuiltSession(id, player_name, visited, inventory, location_states, global_flags, now) ==
  [NewSession(id, S_manor, S_hall, player_name, now)
     EXCEPT !.visited_locations = visited,
            !.inventory = inventory,
            !.location_states = location_states,
            !.global_flags = global_flags]

SaveSessionCall ==
  \E id \in SessionIds, player_name \in {None, Some(S_Bob)},
     visited \in VisitedChoices, inventory \in InventoryChoices,
     location_states \in LocationStateChoices, global_flags \in GlobalFlagChoices,
     t \in clock..MaxClock :
    LET session == BuiltSession(id, player_name, visited, inventory,
                                location_states, global_flags, t) IN
    /\ Apply("save_session", id, <<session>>,
             SaveSession(Store(sessions, t), session))
    /\ UNCHANGED <<issued, origin>>

GetSessionCall ==
  \E sid \in CallIds :
    /\ Apply("get_session", sid, <<>>,
             {Return(Store(sessions, clock), GetSession(sessions, sid))})
    /\ UNCHANGED <<issued, origin>>

DeleteSessionCall ==
  \E sid \in CallIds :
    /\ Apply("delete_session", sid, <<>>,
             DeleteSession(Store(sessions, clock), sid))
    /\ UNCHANGED <<issued, origin>>

PersistNext == SaveSessionCall \/ GetSessionCall \/ DeleteSessionCall \/ Complete

PersistSpec == Init /\ [][PersistNext]_vars

-----------------------------------------------------------------------------
(* C6: right after save_session(s), get_session(s.id) returns a session      *)
(* equal to s in id, adventure_id, player_name, current_location_id,         *)
(* visited_locations (as a set), inventory (same order), location_states and *)
(* global_flags.                                                             *)

Saved == call.op = "save_session"
SavedSession == call.args[1]
GotBack == GetSession(sessions, SavedSession.id)

C6_SaveThenGetReturnsTheSession ==
  Saved =>
    /\ ~IsNone(GotBack)
    /\ Val(GotBack).id = SavedSession.id
    /\ Val(GotBack).adventure_id = SavedSession.adventure_id
    /\ Val(GotBack).player_name = SavedSession.player_name
    /\ Val(GotBack).current_location_id = SavedSession.current_location_id
    /\ Val(GotBack).visited_locations = SavedSession.visited_locations
    /\ Val(GotBack).inventory = SavedSession.inventory
    /\ Val(GotBack).location_states = SavedSession.location_states
    /\ Val(GotBack).global_flags = SavedSession.global_flags

C6_Witness ==
  /\ Saved /\ Has(pre, SavedSession.id)
  /\ Doc(pre, SavedSession.id).inventory # SavedSession.inventory
  /\ Len(SavedSession.inventory) > 1
  /\ Cardinality(SavedSession.visited_locations) > 1
  /\ SavedSession.updated_at < Val(GotBack).updated_at

-----------------------------------------------------------------------------
(* State machine: calls of two callers on the same session, interleaved at   *)
(* the store's reads and writes.  Every mutator reads the session            *)
(* (get_session), changes its own copy and writes it back (save_session);    *)
(* between the two, and between the mutators an executor handler calls, the  *)
(* other caller may run.                                                     *)

StoreCall(op, args) == [op |-> op, args |-> args]

\* the store calls _execute_move makes, in order, after its checks
MovePlan(command, session, location) ==
  IF Falsy(command.target) THEN <<>>
  ELSE LET found == ExitGet(location, Val(command.target)) IN
    IF IsNone(found) THEN <<>>
    ELSE IF ExitIsLocked(Val(found)) THEN <<>>
    ELSE <<StoreCall("move_to_location", <<ExitTarget(Val(found))>>)>>

\* the store calls _execute_take makes, in order, after its checks
TakePlan(command, session, location) ==
  IF Falsy(command.target) THEN <<>>
  ELSE LET found == FindItemInLocation(location, Val(command.target))
           item == Val(found) IN
    IF IsNone(found) THEN <<>>
    ELSE IF ~item.takeable THEN <<>>
    ELSE IF AlreadyHeld(session, item) THEN <<>>
    ELSE <<StoreCall("add_item", <<item.id>>),
           StoreCall("set_location_flag", <<location.id, TakenFlag(item), TRUE>>)>>

\* the store calls _execute_drop makes, in order, after its checks
DropPlan(command, session, location) ==
  IF Falsy(command.target) THEN <<>>
  ELSE LET found == FindInInventory(session, Val(command.target)) IN
    IF NoDropMatch(found) THEN <<>>
    ELSE <<StoreCall("remove_item", <<Val(found)>>)>>

\* execute up to its handler's first store call: the three lookups, the
\* routing and the handler's checks, all on the one session it read
ExecutePlan(db, table, command, session_id) ==
  LET found == GetSession(db, session_id) IN
  IF IsNone(found) THEN <<>>
  ELSE LET session == Val(found)
           adventure == GetAdventure(table, session.adventure_id) IN
    IF IsNone(adventure) THEN <<>>
    ELSE LET location == GetLocation(Val(adventure), session.current_location_id) IN
      IF IsNone(location) THEN <<>>
      ELSE CASE command.type = "move" -> MovePlan(command, session, Val(location))
             [] command.type = "take" -> TakePlan(command, session, Val(location))
             [] command.type = "drop" -> DropPlan(command, session, Val(location))
             [] OTHER -> <<>>

\* the ValueError of a mutator after its get_session
MutatorRaises(m, found) ==
  \/ IsNone(found)
  \/ m.op = "remove_item" /\ m.args[1] \notin Range(Val(found).inventory)

\* faulty variant: the store call saves the copy as it read it
MutatedNothing(m, session) == session

\* what a mutator does to the copy it read
Mutated(m, session) ==
  CASE m.op = "move_to_location" -> MoveMutate(session, m.args[1])
    [] m.op = "add_item" -> AddItemMutate(session, m.args[1])
    [] m.op = "remove_item" -> RemoveItemMutate(session, m.args[1])
    [] m.op = "set_location_flag" ->
         SetLocationFlagMutate(session, m.args[1], m.args[2], m.args[3])

ConcCommands ==
  {GameCommand("take", Some(S_brass), None, S_xyzzy, None),
   GameCommand("drop", Some(S_KE), None, S_xyzzy, None),
   GameCommand("move", Some(S_north), None, S_xyzzy, None)}

ConcStoreCalls ==
  {StoreCall("add_item", <<S_key>>), StoreCall("add_item", <<S_rose>>),
   StoreCall("remove_item", <<S_key>>)}

Started(c, sid, plan) ==
  /\ pc' = [pc EXCEPT ![c] = "get"]
  /\ frame' = [frame EXCEPT ![c] = [sid |-> sid, steps |-> plan, local |-> None]]

\* caller c calls execute: it runs to the handler's first store call, or to
\* its return when the handler makes none
ExecuteBegin(c) ==
  /\ pc[c] = "idle" /\ call = NoCall
  /\ \E sid \in SessionIds, command \in ConcCommands :
       LET plan == ExecutePlan(sessions, adventures, command, sid) IN
       IF Len(plan) = 0 THEN UNCHANGED <<pc, frame>> ELSE Started(c, sid, plan)
  /\ UNCHANGED <<adventures, sessions, issued, origin, clock, pre, call, result, asked>>

\* caller c calls add_item or remove_item itself
MutatorBegin(c) ==
  /\ pc[c] = "idle" /\ call = NoCall
  /\ \E sid \in SessionIds, m \in ConcStoreCalls : Started(c, sid, <<m>>)
  /\ UNCHANGED <<adventures, sessions, issued, origin, clock, pre, call, result, asked>>

\* the get_session of the mutator at the head of c's plan, its checks and its
\* change to the copy; a ValueError ends the whole call
GetStep(c) ==
  /\ pc[c] = "get"
  /\ LET m == Head(frame[c].steps)
         found == GetSession(sessions, frame[c].sid) IN
     IF MutatorRaises(m, found)
     THEN /\ pc' = [pc EXCEPT ![c] = "idle"]
          /\ frame' = [frame EXCEPT ![c] = <<>>]
     ELSE /\ pc' = [pc EXCEPT ![c] = "save"]
          /\ frame' = [frame EXCEPT ![c].local = Some(Mutated(m, Val(found)))]
  /\ UNCHANGED <<adventures, sessions, issued, origin, clock, pre, call, result, asked>>

\* the save_session of that mutator, then on to the next store call of the
\* plan or back to the caller
SaveStep(c) ==
  /\ pc[c] = "save"
  /\ \E o \in SaveSession(Store(sessions, clock), Val(frame[c].local)) :
       /\ sessions' = o.st.db
       /\ clock' = o.st.clock
  /\ IF Len(frame[c].steps) > 1
     THEN /\ pc' = [pc EXCEPT ![c] = "get"]
          /\ frame' = [frame EXCEPT ![c].steps = Tail(@), ![c].local = None]
     ELSE /\ pc' = [pc EXCEPT ![c] = "idle"]
          /\ frame' = [frame EXCEPT ![c] = <<>>]
  /\ UNCHANGED <<adventures, issued, origin, pre, call, result, asked>>

ConcNext ==
  \/ NewGame
  \/ Complete
  \/ \E c \in Callers : ExecuteBegin(c)
  \/ \E c \in Callers : MutatorBegin(c)
  \/ \E c \in Callers : GetStep(c)
  \/ \E c \in Callers : SaveStep(c)

ConcSpec == Init /\ [][ConcNext]_vars

-----------------------------------------------------------------------------
(* C3: in every reachable state every stored inventory holds each item id at *)
(* most once, under take, drop, add_item and remove_item of two callers      *)
(* interleaved at the store's reads and writes.                              *)

NoDuplicates(q) == \A i, j \in 1..Len(q) : q[i] = q[j] => i = j

C3_InventoryHasNoDuplicates ==
  \A i \in 1..Len(sessions) : NoDuplicates(sessions[i].inventory)

\* a caller is about to write a copy that holds the key while the table,
\* written by the other caller since, holds the key in another inventory
C3_Witness ==
  \E c \in Callers :
    /\ pc[c] = "save"
    /\ Has(sessions, frame[c].sid)
    /\ S_key \in Range(Val(frame[c].local).inventory)
    /\ S_key \in Range(Doc(sessions, frame[c].sid).inventory)
    /\ Val(frame[c].local).inventory # Doc(sessions, frame[c].sid).inventory

-----------------------------------------------------------------------------
(* C11: in every result of execute, location_changed is true exactly when    *)
(* the command is a move that succeeded, and inventory_changed is true       *)
(* exactly when the command is a take or a drop that succeeded; so failures  *)
(* and the six other command types carry both flags false.                   *)

C11_ChangedFlagsFollowTypeAndSuccess ==
  (Executed /\ Returned) =>
    /\ Answer.location_changed <=> (Cmd.type = "move" /\ Answer.success)
    /\ Answer.inventory_changed <=> (Cmd.type \in {"take", "drop"} /\ Answer.success)

C11_Witness ==
  /\ Handled("drop") /\ Returned /\ Answer.success
  /\ Answer.inventory_changed /\ ~Answer.location_changed

-----------------------------------------------------------------------------
(* C12: a take whose target resolves to a visible, takeable item of the      *)
(* current location whose id is not in the inventory returns success=true    *)
(* and inventory_changed=true; the stored inventory is then the old one with *)
(* the id appended, the flag item_taken_<id> of the current location reads   *)
(* true, and current_location_id and visited_locations are as before.        *)

TakeOfFreeItem ==
  /\ Handled("take")
  /\ ~Falsy(Cmd.target)
  /\ ~IsNone(FindItemInLocation(LocationBefore, Val(Cmd.target)))
  /\ Val(FindItemInLocation(LocationBefore, Val(Cmd.target))).takeable
  /\ Val(FindItemInLocation(LocationBefore, Val(Cmd.target))).id
       \notin Range(SessionBefore.inventory)

TakenItem == Val(FindItemInLocation(LocationBefore, Val(Cmd.target)))

-----------------------------------------------------------------------------
(* C13: a successful drop removes exactly the first inventory id that        *)
(* contains the target case-insensitively: the inventory is the old one      *)
(* without that position, and position, visited set and flags are as before. *)
(* A drop with a target that no inventory id contains fails with             *)
(* "don't have" and writes nothing.                                          *)

TargetIn(id) == Contains(Lower(Val(Cmd.target)), Lower(id))

FirstHit ==
  CHOOSE i \in 1..Len(SessionBefore.inventory) :
    /\ TargetIn(SessionBefore.inventory[i])
    /\ \A j \in 1..(i - 1) : ~TargetIn(SessionBefore.inventory[j])

Without(q, i) == SubSeq(q, 1, i - 1) \o SubSeq(q, i + 1, Len(q))

C13_DropRemovesTheFirstMatch ==
  /\ (Handled("drop") /\ Returned /\ Answer.success) =>
       /\ ~Falsy(Cmd.target)
       /\ \E i \in 1..Len(SessionBefore.inventory) : TargetIn(SessionBefore.inventory[i])
       /\ SessionAfter.inventory = Without(SessionBefore.inventory, FirstHit)
       /\ SessionAfter.current_location_id = SessionBefore.current_location_id
       /\ SessionAfter.visited_locations = SessionBefore.visited_locations
       /\ SessionAfter.location_states = SessionBefore.location_states
       /\ SessionAfter.global_flags = SessionBefore.global_flags
  /\ (/\ Handled("drop") /\ ~Falsy(Cmd.target)
      /\ \A i \in 1..Len(SessionBefore.inventory) : ~TargetIn(SessionBefore.inventory[i])) =>
       /\ Returned /\ ~Answer.success
       /\ Contains(<<"d","o","n","'","t"," ","h","a","v","e">>, Answer.message)
       /\ sessions = pre

\* the target is contained in both held ids, and the first of them goes
C13_Witness ==
  /\ Handled("drop") /\ Returned /\ Answer.success
  /\ Len(SessionBefore.inventory) = 2
  /\ \A i \in 1..2 : TargetIn(SessionBefore.inventory[i])
  /\ SessionAfter.inventory = <<SessionBefore.inventory[2]>>

-----------------------------------------------------------------------------
(* C14: a use succeeds exactly when its target is non-empty and equal, as a  *)
(* whole string and in the same case, to an id of the inventory; any other   *)
(* non-empty target fails with "don't have", however it resembles an id or   *)
(* an item's display name.                                                   *)

ExactlyHeld ==
  /\ ~Falsy(Cmd.target)
  /\ \E i \in 1..Len(SessionBefore.inventory) : SessionBefore.inventory[i] = Val(Cmd.target)

C14_UseNeedsTheExactId ==
  Handled("use") =>
    /\ Returned
    /\ Answer.success <=> ExactlyHeld
    /\ (~Falsy(Cmd.target) /\ ~ExactlyHeld) => Contains(<<"d","o","n","'","t"," ","h","a","v","e">>, Answer.message)

\* the target differs from a held id only by case
C14_Witness ==
  /\ Handled("use") /\ Returned /\ ~Answer.success
  /\ ~Falsy(Cmd.target)
  /\ Val(Cmd.target) \notin Range(SessionBefore.inventory)
  /\ Lower(Val(Cmd.target)) \in Range(SessionBefore.inventory)

-----------------------------------------------------------------------------
(* C15: the adventure records are never written: after any sequence of       *)
(* execute calls and Session Store operations the adventures table, with     *)
(* every location, exit and item of it, is the table that was loaded.        *)

C15_WorldIsNeverMutated == adventures = World

\* an item has just been taken and is still an item of its location
C15_Witness ==
  /\ TakeOfFreeItem /\ Returned /\ Answer.success
  /\ TakenItem.id \in Range(SessionAfter.inventory)
  /\ \E i \in 1..Len(adventures) :
       /\ adventures[i].id = SessionAfter.adventure_id
       /\ TakenItem \in Range(adventures[i].locations[SessionAfter.current_location_id].items)

-----------------------------------------------------------------------------
(* State machine: the whole Session Store API, one call at a time, over the  *)
(* lifetime of sessions: created or saved, read and mutated, deleted.        *)

\* save_session with a session object the caller built
SaveBuiltCall ==
  \E id \in SessionIds, inventory \in {<<>>, <<S_rose>>}, t \in clock..MaxClock :
    LET session == BuiltSession(id, None, {S_hall}, inventory, EmptyDict, EmptyDict, t) IN
    /\ Apply("save_session", id, <<session>>,
             SaveSession(Store(sessions, t), session))
    /\ UNCHANGED <<issued, origin>>

GetCurrentLocationCall ==
  \E sid \in CallIds :
    /\ Apply("get_current_location", sid, <<>>,
             GetCurrentLocation(Store(sessions, clock), sid))
    /\ UNCHANGED <<issued, origin>>

HasVisitedLocationCall ==
  \E sid \in CallIds, location_id \in MoveChoices :
    /\ Apply("has_visited_location", sid, <<location_id>>,
             HasVisitedLocation(Store(sessions, clock), sid, location_id))
    /\ UNCHANGED <<issued, origin>>

HasItemCall ==
  \E sid \in CallIds, item_id \in AddChoices :
    /\ Apply("has_item", sid, <<item_id>>,
             HasItem(Store(sessions, clock), sid, item_id))
    /\ UNCHANGED <<issued, origin>>

GetInventoryCall ==
  \E sid \in CallIds :
    /\ Apply("get_inventory", sid, <<>>,
             GetInventory(Store(sessions, clock), sid))
    /\ UNCHANGED <<issued, origin>>

GetLocationFlagCall ==
  \E sid \in CallIds, location_id \in FlagLocations, flag_name \in LocationFlagNames :
    /\ Apply("get_location_flag", sid, <<location_id, flag_name>>,
             GetLocationFlag(Store(sessions, clock), sid, location_id, flag_name))
    /\ UNCHANGED <<issued, origin>>

GetGlobalFlagCall ==
  \E sid \in CallIds, flag_name \in GlobalFlagNames :
    /\ Apply("get_global_flag", sid, <<flag_name>>,
             GetGlobalFlag(Store(sessions, clock), sid, flag_name))
    /\ UNCHANGED <<issued, origin>>

LifeNext ==
  \/ CreateAny
  \/ SaveBuiltCall
  \/ GetSessionCall
  \/ DeleteSessionCall
  \/ MoveToLocationCall
  \/ AddItemCall
  \/ RemoveItemCall
  \/ SetLocationFlagCall
  \/ SetGlobalFlagCall
  \/ GetCurrentLocationCall
  \/ HasVisitedLocationCall
  \/ HasItemCall
  \/ GetInventoryCall
  \/ GetLocationFlagCall
  \/ GetGlobalFlagCall
  \/ Complete

LifeSpec == Init /\ [][LifeNext]_vars

-----------------------------------------------------------------------------
(* C16: create_session stores and returns a session at the starting location *)
(* it was given, with exactly that location visited and with empty           *)
(* inventory, location flags and global flags; get_session on the returned   *)
(* id right afterwards yields that same session.                             *)

Created == call.op = "create_session"

C16_CreateSeedsTheSession ==
  Created =>
    /\ Returned
    /\ Answer.id = call.sid
    /\ Answer.adventure_id = call.args[1]
    /\ Answer.current_location_id = call.args[2]
    /\ Answer.player_name = call.args[3]
    /\ Answer.visited_locations = {call.args[2]}
    /\ Answer.inventory = <<>>
    /\ DOMAIN Answer.location_states = {}
    /\ DOMAIN Answer.global_flags = {}
    /\ GetSession(sessions, Answer.id) = Some(Answer)

\* created for an adventure id that is in no table, the clock moving between
\* the construction of the session and its save
C16_Witness ==
  /\ Created /\ Returned
  /\ IsNone(GetAdventure(adventures, Answer.adventure_id))
  /\ Answer.created_at < Answer.updated_at

-----------------------------------------------------------------------------
(* C17: get_session on an id that is not in the table, never created or      *)
(* created and deleted since, returns None, raises nothing and leaves the    *)
(* table as it was; and right after delete_session(id) the id is not in the  *)
(* table, so that get_session(id) returns None.                              *)

C17_GetOfMissingIsNone ==
  /\ (call.op = "get_session" /\ ~Has(pre, call.sid)) =>
       /\ Returned /\ IsNone(Answer)
       /\ sessions = pre
  /\ call.op = "delete_session" =>
       /\ ~result.raised
       /\ IsNone(GetSession(sessions, call.sid))

\* the id was handed out by create_session and its record is gone
C17_Witness ==
  /\ call.op = "get_session" /\ call.sid \in issued
  /\ ~Has(pre, call.sid)
  /\ Returned /\ IsNone(Answer)

C17_NeverCreatedReached ==
  call.op = "get_session" /\ call.sid \notin issued /\ Len(pre) > 0 /\ ~Has(pre, call.sid)

-----------------------------------------------------------------------------
(* C18: the table holds at most one record per session id, whatever creates, *)
(* saves, mutators and deletes came before; a save of a session whose id is  *)
(* in the table replaces that record: the table keeps its length and the     *)
(* record of that id is the session just saved.                              *)

C18_OneRecordPerId ==
  /\ \A i, j \in 1..Len(sessions) : sessions[i].id = sessions[j].id => i = j
  /\ (call.op = "save_session" /\ Has(pre, call.sid)) =>
       /\ Returned
       /\ Len(sessions) = Len(pre)
       /\ GetSession(sessions, call.sid) = Some(Answer)
       /\ Answer.inventory = call.args[1].inventory

C18_Witness ==
  /\ call.op = "save_session" /\ Has(pre, call.sid)
  /\ Doc(pre, call.sid).inventory # call.args[1].inventory
  /\ Doc(pre, call.sid).visited_locations # <<S_hall>>
  /\ Len(sessions) = 1

-----------------------------------------------------------------------------
(* C19: the five mutators and the accessors get_current_location, has_item,  *)
(* get_inventory, get_location_flag and get_global_flag, called with a       *)
(* session id that is not in the table, raise and leave the table as it was, *)
(* with no record created; remove_item of an id that is not in the session's *)
(* inventory raises and leaves the table as it was.                          *)

RaisingOps ==
  {"move_to_location", "add_item", "remove_item", "set_location_flag",
   "set_global_flag", "get_current_location", "has_item", "get_inventory",
   "get_location_flag", "get_global_flag"}

RemoveOfAbsentItem ==
  /\ call.op = "remove_item" /\ Has(pre, call.sid)
  /\ call.args[1] \notin Range(SessionBefore.inventory)

C19_MissingSessionOrItemRaises ==
  /\ (call.op \in RaisingOps /\ ~Has(pre, call.sid)) =>
       /\ result.raised
       /\ sessions = pre
  /\ RemoveOfAbsentItem =>
       /\ result.raised
       /\ sessions = pre

\* the session holds another item, and its record is older than the clock
C19_Witness ==
  /\ RemoveOfAbsentItem
  /\ Len(SessionBefore.inventory) > 0
  /\ SessionBefore.updated_at < clock

C19_MissingSessionReached ==
  call.op = "get_location_flag" /\ ~Has(pre, call.sid) /\ result.raised

-----------------------------------------------------------------------------
(* State machine: the flag operations of the Session Store, with both flag   *)
(* values and several flags per session, beside a take, a drop and a move of *)
(* the executor and the store's own move and add.                            *)

FlagPairs ==
  {<<S_hall, S_item_taken_ \o S_key>>, <<S_hall, S_won>>, <<S_garden, S_won>>}

SetAnyLocationFlagCall ==
  \E sid \in CallIds, f \in FlagPairs, value \in BOOLEAN :
    /\ Apply("set_location_flag", sid, <<f[1], f[2], value>>,
             SetLocationFlag(Store(sessions, clock), sid, f[1], f[2], value))
    /\ UNCHANGED <<issued, origin>>

SetAnyGlobalFlagCall ==
  \E sid \in CallIds, flag_name \in GlobalFlagNames, value \in BOOLEAN :
    /\ Apply("set_global_flag", sid, <<flag_name, value>>,
             SetGlobalFlag(Store(sessions, clock), sid, flag_name, value))
    /\ UNCHANGED <<issued, origin>>

GetAnyLocationFlagCall ==
  \E sid \in CallIds, f \in FlagPairs :
    /\ Apply("get_location_flag", sid, <<f[1], f[2]>>,
             GetLocationFlag(Store(sessions, clock), sid, f[1], f[2]))
    /\ UNCHANGED <<issued, origin>>

PlayCall ==
  \E sid \in SessionIds, command \in ConcCommands :
    /\ Apply("execute", sid, <<command>>,
             Execute(Store(sessions, clock), adventures, command, sid))
    /\ UNCHANGED <<issued, origin>>

FlagNext ==
  \/ CreateAny
  \/ PlayCall
  \/ MoveToLocationCall
  \/ AddItemCall
  \/ SetAnyLocationFlagCall
  \/ SetAnyGlobalFlagCall
  \/ GetAnyLocationFlagCall
  \/ GetGlobalFlagCall
  \/ Complete

FlagSpec == Init /\ [][FlagNext]_vars

-----------------------------------------------------------------------------
(* C20: flags of an existing session.  At creation every flag reads false,   *)
(* and a flag's reading changes only when it is set (by set_location_flag,   *)
(* by set_global_flag, or by the item_taken flag of a take), so a flag never *)
(* set reads false.  After set_location_flag(id, loc, name, v),              *)
(* get_location_flag(id, loc, name) returns v; after set_global_flag(id,     *)
(* name, v), get_global_flag(id, name) returns v; and a set leaves every     *)
(* other flag, of either scope, as it was.                                   *)

FlagLocationUniverse == {S_hall, S_garden, S_vault, S_cell}
FlagNameUniverse == {S_item_taken_ \o S_key, S_item_taken_ \o S_rose, S_won}
GlobalFlagUniverse == {S_won, S_item_taken_ \o S_key}

Now == Store(sessions, clock)

\* all location flags but the named one read as before, over the universe
OtherLocationFlagsKept(location_id, flag_name) ==
  \A l \in FlagLocationUniverse, n \in FlagNameUniverse :
    (l # location_id \/ n # flag_name) =>
      LocationFlagOf(SessionAfter, l, n) = LocationFlagOf(SessionBefore, l, n)

OtherGlobalFlagsKept(flag_name) ==
  \A n \in GlobalFlagUniverse :
    n # flag_name => GlobalFlagOf(SessionAfter, n) = GlobalFlagOf(SessionBefore, n)

C20_FlagsReadWhatWasSet ==
  /\ Created =>
       /\ \A l \in FlagLocationUniverse, n \in FlagNameUniverse :
            GetLocationFlag(Now, call.sid, l, n) = {Return(Now, FALSE)}
       /\ \A n \in GlobalFlagUniverse :
            GetGlobalFlag(Now, call.sid, n) = {Return(Now, FALSE)}
  /\ (call.op = "set_location_flag" /\ Has(pre, call.sid)) =>
       /\ Returned
       /\ GetLocationFlag(Now, call.sid, call.args[1], call.args[2])
            = {Return(Now, call.args[3])}
       /\ OtherLocationFlagsKept(call.args[1], call.args[2])
       /\ SessionAfter.global_flags = SessionBefore.global_flags
  /\ (call.op = "set_global_flag" /\ Has(pre, call.sid)) =>
       /\ Returned
       /\ GetGlobalFlag(Now, call.sid, call.args[1]) = {Return(Now, call.args[2])}
       /\ OtherGlobalFlagsKept(call.args[1])
       /\ SessionAfter.location_states = SessionBefore.location_states
  /\ (/\ call.op \in {"execute", "move_to_location", "add_item"}
      /\ Has(pre, call.sid)) =>
       /\ Has(sessions, call.sid)
       /\ SessionAfter.global_flags = SessionBefore.global_flags
       /\ \/ SessionAfter.location_states = SessionBefore.location_states
          \/ /\ TakeOfFreeItem
             /\ OtherLocationFlagsKept(SessionBefore.current_location_id,
                                       S_item_taken_ \o TakenItem.id)

\* a flag that reads true is set to false while a flag of another location
\* and a global flag read true
C20_Witness ==
  /\ call.op = "set_location_flag" /\ Has(pre, call.sid) /\ Returned
  /\ call.args[3] = FALSE
  /\ LocationFlagOf(SessionBefore, call.args[1], call.args[2])
  /\ \E l \in FlagLocationUniverse, n \in FlagNameUniverse :
       l # call.args[1] /\ LocationFlagOf(SessionAfter, l, n)
  /\ GlobalFlagOf(SessionAfter, S_won)

-----------------------------------------------------------------------------
(* State machine: every kind of Session Store write on the session of a     *)
(* game: its creation, a save of the session object as read back, the five  *)
(* mutators, and the writes of the executor's take, drop and move.          *)

\* save_session(session) with the session a get_session returned
SaveAgainCall ==
  \E sid \in SessionIds :
    /\ Has(sessions, sid)
    /\ Apply("save_session", sid, <<Val(GetSession(sessions, sid))>>,
             SaveSession(Store(sessions, clock), Val(GetSession(sessions, sid))))
    /\ UNCHANGED <<issued, origin>>

TimeNext ==
  \/ CreateAny
  \/ SaveAgainCall
  \/ PlayCall
  \/ MoveToLocationCall
  \/ AddItemCall
  \/ RemoveItemCall
  \/ SetLocationFlagCall
  \/ SetGlobalFlagCall
  \/ Complete

TimeSpec == Init /\ [][TimeNext]_vars

-----------------------------------------------------------------------------
(* C21: with time a non-decreasing clock, every step that writes a session   *)
(* record (create, save, a mutator, a writing execute) leaves its updated_at *)
(* and last_played_at at clock readings taken during that step, updated_at   *)
(* first, so neither is below its earlier value; created_at of an existing   *)
(* record stays what it was, and of a new record is a reading of that step;  *)
(* a step that does not write a record leaves its three timestamps alone;    *)
(* and an execute call that reports no change has written no record.         *)

CreatedAt(doc) == FromIso(doc.created_at)
UpdatedAt(doc) == FromIso(doc.updated_at)
LastPlayedAt(doc) == FromIso(doc.last_played_at)

\* the record of this id is written by the step
Written(id) == Has(sessions', id) /\ (~Has(sessions, id) \/ Doc(sessions', id) # Doc(sessions, id))

C21_Step ==
  /\ clock <= clock'
  /\ \A id \in CallIds :
       /\ Written(id) =>
            /\ UpdatedAt(Doc(sessions', id)) \in clock..clock'
            /\ LastPlayedAt(Doc(sessions', id)) \in clock..clock'
            /\ UpdatedAt(Doc(sessions', id)) <= LastPlayedAt(Doc(sessions', id))
            /\ IF Has(sessions, id)
               THEN /\ CreatedAt(Doc(sessions', id)) = CreatedAt(Doc(sessions, id))
                    /\ UpdatedAt(Doc(sessions', id)) >= UpdatedAt(Doc(sessions, id))
                    /\ LastPlayedAt(Doc(sessions', id)) >= LastPlayedAt(Doc(sessions, id))
               ELSE /\ CreatedAt(Doc(sessions', id)) \in clock..clock'
                    /\ CreatedAt(Doc(sessions', id)) <= UpdatedAt(Doc(sessions', id))
       /\ (call'.op \in {"create_session", "save_session"} /\ call'.sid = id)
            => Written(id) \/ clock' = clock
       /\ (call'.op = "execute" /\ call' # call /\ ~result'.raised
             /\ ~Val(result'.ret).location_changed /\ ~Val(result'.ret).inventory_changed)
            => sessions' = sessions

C21_QuietExecuteReached ==
  /\ Executed /\ Returned /\ Has(pre, call.sid)
  /\ ~Answer.location_changed /\ ~Answer.inventory_changed
  /\ CreatedAt(Doc(sessions, call.sid)) < LastPlayedAt(Doc(sessions, call.sid))

-----------------------------------------------------------------------------
(* Command Parser: the rule-based fallback (_parse_with_patterns).  The      *)
(* regular expressions are computed on the characters: \s is IsSpace, \w is *)
(* IsWordChar, and a group is what the backtracking match captures.          *)

ParsedCommand(type, target, secondary_target, raw_input, confidence, error_message) ==
  [GameCommand(type, target, secondary_target, raw_input, error_message)
     EXCEPT !.confidence = confidence]

Digits == {"0", "1", "2", "3", "4", "5", "6", "7", "8", "9"}
IsSpace(c) == c \in {" ", "\t", "\n", "\r"}
IsWordChar(c) == c \in Range(LowerChars) \cup Range(UpperChars) \cup Digits \cup {"_"}

\* \w+ over the whole string
IsWord(s) == Len(s) > 0 /\ \A i \in 1..Len(s) : IsWordChar(s[i])

\* . does not match a newline
OneLine(s) == \A i \in 1..Len(s) : s[i] # "\n"

Least(S) == CHOOSE x \in S : \A y \in S : x <= y
Greatest(S) == CHOOSE x \in S : \A y \in S : x >= y
Solid(s) == {i \in 1..Len(s) : ~IsSpace(s[i])}

\* str.strip()
Strip(s) == IF Solid(s) = {} THEN <<>> ELSE SubSeq(s, Least(Solid(s)), Greatest(Solid(s)))

\* the string without its leading whitespace
DropSpaces(s) == IF Solid(s) = {} THEN <<>> ELSE SubSeq(s, Least(Solid(s)), Len(s))

StartsWith(s, p) == Len(s) >= Len(p) /\ SubSeq(s, 1, Len(p)) = p

\* p\s+ at the start of s: what follows the longest match, or None
AfterWord(s, p) ==
  IF StartsWith(s, p) /\ Len(s) > Len(p) /\ IsSpace(s[Len(p) + 1])
  THEN Some(DropSpaces(SubSeq(s, Len(p) + 1, Len(s))))
  ELSE None

\* (?:v1|v2|...)\s+ at the start of s, the alternatives tried in order
AfterVerb(s, verbs) ==
  IF \E i \in 1..Len(verbs) : ~IsNone(AfterWord(s, verbs[i]))
  THEN AfterWord(s, verbs[Least({i \in 1..Len(verbs) : ~IsNone(AfterWord(s, verbs[i]))})])
  ELSE None

\* (?:the\s+)?(.+)$ on r: the group
AfterThe(r) ==
  LET t == AfterWord(r, <<"t","h","e">>) IN
  IF ~IsNone(t) /\ Len(Val(t)) > 0 /\ OneLine(Val(t)) THEN t
  ELSE IF Len(r) > 0 /\ OneLine(r) THEN Some(r)
  ELSE None

\* ^(?:v1|v2|...)\s+(?:the\s+)?(.+)$ : group 1, or None when there is no match
VerbObject(s, verbs) ==
  LET r == AfterVerb(s, verbs) IN
  IF IsNone(r) THEN None ELSE AfterThe(Val(r))

MoveVerbs == <<<<"g","o">>, <<"w","a","l","k">>, <<"m","o","v","e">>, <<"h","e","a","d">>, <<"r","u","n">>>>
DirectionWords ==
  {<<"n","o","r","t","h">>, <<"s","o","u","t","h">>, <<"e","a","s","t">>, <<"w","e","s","t">>, <<"n">>, <<"s">>, <<"e">>, <<"w">>,
   <<"u","p">>, <<"d","o","w","n">>, <<"u">>, <<"d">>}
TakeVerbs == <<<<"t","a","k","e">>, <<"g","e","t">>, <<"p","i","c","k"," ","u","p">>, <<"g","r","a","b">>, <<"p","i","c","k","u","p">>>>
DropVerbs == <<<<"d","r","o","p">>, <<"d","i","s","c","a","r","d">>, <<"l","e","a","v","e">>>>
ExamineVerbs == <<<<"e","x","a","m","i","n","e">>, <<"i","n","s","p","e","c","t">>, <<"l","o","o","k"," ","a","t">>, <<"c","h","e","c","k">>, <<"x">>>>
UseVerbs == <<<<"u","s","e">>>>

\* p\s+ at the start of s: what follows each match, the longest first
AfterWordAll(s, p) ==
  IF IsNone(AfterWord(s, p)) THEN <<>>
  ELSE LET n == Len(Val(AfterWord(s, p)))
           run == Len(s) - Len(p) - n IN
       [k \in 1..run |-> SubSeq(s, Len(s) - n - k + 2, Len(s))]

\* what may follow an optional p\s+ after each of rs: with it first, then
\* without
RECURSIVE Optionally(_, _)
Optionally(rs, p) ==
  IF Len(rs) = 0 THEN <<>>
  ELSE AfterWordAll(Head(rs), p) \o <<Head(rs)>> \o Optionally(Tail(rs), p)

\* ^(?:go|walk|move|head|run)\s+(?:to\s+)?(?:the\s+)?(\w+)$ : group 1
GoDirection(s) ==
  LET r == AfterVerb(s, MoveVerbs)
      ends == IF IsNone(r) THEN <<>>
              ELSE Optionally(Optionally(<<Val(r)>>, <<"t","o">>), <<"t","h","e">>)
      words == SelectSeq(ends, IsWord) IN
  IF Len(words) = 0 THEN None ELSE Some(words[1])

\* the three movement patterns in order: of each that matches, the direction
\* it proposes and its confidence
MoveCandidates(normalized) ==
  (IF IsNone(GoDirection(normalized)) THEN <<>>
   ELSE <<<<Val(GoDirection(normalized)), 100>>>>)
  \o (IF normalized \in DirectionWords THEN <<<<normalized, 100>>>> ELSE <<>>)
  \o (IF IsWord(normalized) THEN <<<<normalized, 50>>>> ELSE <<>>)

\* (.+?)\s+(?:on|with)\s+(?:the\s+)?(.+)$ on r: the ends of group 1 that match
UseSplits(r) ==
  {k \in 1..Len(r) :
     /\ OneLine(SubSeq(r, 1, k))
     /\ k < Len(r) /\ IsSpace(r[k + 1])
     /\ LET rest == DropSpaces(SubSeq(r, k + 1, Len(r)))
            tail == AfterVerb(rest, <<<<"o","n">>, <<"w","i","t","h">>>>) IN
        ~IsNone(tail) /\ ~IsNone(AfterThe(Val(tail)))}

UseSecondary(r, k) ==
  AfterThe(Val(AfterVerb(DropSpaces(SubSeq(r, k + 1, Len(r))), <<<<"o","n">>, <<"w","i","t","h">>>>)))

\* ^(?:use)\s+(?:the\s+)?(.+?)\s+(?:on|with)\s+(?:the\s+)?(.+)$ : the two
\* groups of the first match in backtracking order, or None
UseOn(s) ==
  LET starts == SelectSeq(Optionally(AfterWordAll(s, <<"u","s","e">>), <<"t","h","e">>),
                          LAMBDA r : UseSplits(r) # {}) IN
  IF Len(starts) = 0 THEN None
  ELSE LET r == starts[1]
           k == Least(UseSplits(r)) IN
       Some(<<SubSeq(r, 1, k), Val(UseSecondary(r, k))>>)

\* faulty variant: every movement candidate is taken for an exit
MoveHitsUnchecked(normalized, location) == MoveCandidates(normalized)

\* the candidates that are keys of location.exits
MoveHits(normalized, location) ==
  SelectSeq(MoveCandidates(normalized), LAMBDA c : c[1] \in Range(ExitKeys(location)))

\* the return of each recognizer of _parse_with_patterns, in the order of the
\* code, None for a recognizer that does not accept the input
Recognizers(normalized, location, player_input) ==
  <<IF normalized \in {<<"i","n","v","e","n","t","o","r","y">>, <<"i">>, <<"i","n","v">>}
    THEN Some(ParsedCommand("inventory", None, None, player_input, 100, None)) ELSE None,
    IF normalized \in {<<"l","o","o","k">>, <<"l">>, <<"l","o","o","k"," ","a","r","o","u","n","d">>}
    THEN Some(ParsedCommand("look", None, None, player_input, 100, None)) ELSE None,
    IF normalized \in {<<"h","e","l","p">>, <<"?">>}
    THEN Some(ParsedCommand("help", None, None, player_input, 100, None)) ELSE None,
    IF Len(MoveHits(normalized, location)) > 0
    THEN Some(ParsedCommand("move", Some(MoveHits(normalized, location)[1][1]), None,
                            player_input, MoveHits(normalized, location)[1][2], None))
    ELSE None,
    IF ~IsNone(VerbObject(normalized, TakeVerbs))
    THEN Some(ParsedCommand("take", VerbObject(normalized, TakeVerbs), None,
                            player_input, 80, None))
    ELSE IF normalized \in Range(TakeVerbs)
    THEN Some(ParsedCommand("take", None, None, player_input, 80, None)) ELSE None,
    IF ~IsNone(VerbObject(normalized, DropVerbs))
    THEN Some(ParsedCommand("drop", VerbObject(normalized, DropVerbs), None,
                            player_input, 80, None))
    ELSE None,
    IF ~IsNone(VerbObject(normalized, ExamineVerbs))
    THEN Some(ParsedCommand("examine", VerbObject(normalized, ExamineVerbs), None,
                            player_input, 80, None))
    ELSE None,
    IF ~IsNone(UseOn(normalized))
    THEN Some(ParsedCommand("use", Some(Val(UseOn(normalized))[1]),
                            Some(Val(UseOn(normalized))[2]), player_input, 70, None))
    ELSE IF ~IsNone(VerbObject(normalized, UseVerbs))
    THEN Some(ParsedCommand("use", VerbObject(normalized, UseVerbs), None,
                            player_input, 70, None))
    ELSE None>>

\* faulty variant: the message and raw_input of the unknown command take the
\* trimmed input
UnknownCommandTrimmed(player_input) ==
  ParsedCommand("unknown", None, None, Strip(player_input), 0,
                Some(<<"I"," ","d","o","n","'","t"," ","u","n","d","e","r","s","t","a","n","d"," ","'">> \o Strip(player_input) \o <<"'","."," ","T","y","p","e"," ","'","h","e","l","p","'"," ","f","o","r"," ","a","s","s","i","s","t","a","n","c","e",".">>))

\* the last return of _parse_with_patterns
UnknownCommand(player_input) ==
  ParsedCommand("unknown", None, None, player_input, 0,
                Some(<<"I"," ","d","o","n","'","t"," ","u","n","d","e","r","s","t","a","n","d"," ","'">> \o player_input \o <<"'","."," ","T","y","p","e"," ","'","h","e","l","p","'"," ","f","o","r"," ","a","s","s","i","s","t","a","n","c","e",".">>))

\* faulty variant: the last recognizer that accepts decides
LastAccepted(rs, otherwise) ==
  IF \A k \in 1..Len(rs) : IsNone(rs[k]) THEN otherwise
  ELSE Val(rs[Greatest({k \in 1..Len(rs) : ~IsNone(rs[k])})])

\* the first `return` reached
FirstAccepted(rs, otherwise) ==
  IF \A k \in 1..Len(rs) : IsNone(rs[k]) THEN otherwise
  ELSE Val(rs[Least({k \in 1..Len(rs) : ~IsNone(rs[k])})])

\* _parse_with_patterns
ParseWithPatterns(player_input, location, inventory) ==
  FirstAccepted(Recognizers(Strip(Lower(player_input)), location, player_input),
                UnknownCommand(player_input))

-----------------------------------------------------------------------------
(* Command Parser: the interpreter path (_parse_with_llm) and parse_command. *)
(* A response text is a sequence of pieces: prose without braces, a          *)
(* well-formed JSON object, a JSON value that is not an object, or a stray   *)
(* brace.  A JSON value is a kind with a string or a number (confidence in   *)
(* hundredths, as everywhere).                                               *)

JString(s) == [kind |-> "string", s |-> s, n |-> 0]
JNumber(n) == [kind |-> "number", s |-> <<>>, n |-> n]
JNull == [kind |-> "null", s |-> <<>>, n |-> 0]
JArray == [kind |-> "array", s |-> <<>>, n |-> 0]

Prose == [piece |-> "prose", fields |-> EmptyDict]
Object(fields) == [piece |-> "object", fields |-> fields]
Value == [piece |-> "value", fields |-> EmptyDict]
OpenBrace == [piece |-> "open", fields |-> EmptyDict]
CloseBrace == [piece |-> "close", fields |-> EmptyDict]

\* re.search(r'\{.*\}', response, re.DOTALL): from the first "{" to the last
\* "}" after it, or None
SearchBraces(pieces) ==
  LET opens == {i \in 1..Len(pieces) : pieces[i].piece \in {"object", "open"}}
      first == Least(opens)
      closes == {j \in 1..Len(pieces) :
                   /\ pieces[j].piece \in {"object", "close"}
                   /\ j > first \/ (j = first /\ pieces[j].piece = "object")} IN
  IF opens = {} \/ closes = {} THEN None
  ELSE Some(SubSeq(pieces, first, Greatest(closes)))

\* json.loads(text): the decoded value, or None for JSONDecodeError
JsonLoads(pieces) ==
  IF Len(pieces) = 1 /\ pieces[1].piece \in {"object", "value"}
  THEN Some(pieces[1])
  ELSE None

\* parsed.get(key, default) and parsed.get(key), on a decoded object
Get(parsed, key, default) == DictGet(parsed.fields, key, default)

\* the member of CommandType with this value, or None for ValueError
CommandTypeNames ==
  [t \in CommandTypes |->
     CASE t = "move" -> <<"m","o","v","e">> [] t = "take" -> <<"t","a","k","e">> [] t = "drop" -> <<"d","r","o","p">>
       [] t = "examine" -> <<"e","x","a","m","i","n","e">> [] t = "use" -> <<"u","s","e">> [] t = "look" -> <<"l","o","o","k">>
       [] t = "inventory" -> <<"i","n","v","e","n","t","o","r","y">> [] t = "help" -> <<"h","e","l","p">>
       [] t = "unknown" -> <<"u","n","k","n","o","w","n">>]

CommandTypeOf(v) ==
  IF v.kind = "string" /\ \E t \in CommandTypes : CommandTypeNames[t] = v.s
  THEN Some(CHOOSE t \in CommandTypes : CommandTypeNames[t] = v.s)
  ELSE None

\* validation of an Optional[str] field: the field's value, or None for
\* ValidationError
ValidOptionalStr(v) ==
  IF v.kind = "null" THEN Some(None)
  ELSE IF v.kind = "string" THEN Some(Some(v.s))
  ELSE None

DigitChars == <<"0", "1", "2", "3", "4", "5", "6", "7", "8", "9">>
DigitValue(c) == (CHOOSE i \in 1..10 : DigitChars[i] = c) - 1

RECURSIVE Numeral(_)
Numeral(s) == IF Len(s) = 0 THEN 0 ELSE 10 * Numeral(SubSeq(s, 1, Len(s) - 1)) + DigitValue(s[Len(s)])

AllDigits(s) == Len(s) > 0 /\ \A i \in 1..Len(s) : s[i] \in Digits

\* a decimal numeral with at most two fraction digits read as a float, in
\* hundredths, or None when the string is not such a numeral
StrToFloat(s) ==
  LET neg == Len(s) > 0 /\ s[1] = "-"
      body == IF neg THEN Tail(s) ELSE s
      dots == {i \in 1..Len(body) : body[i] = "."}
      whole == IF dots = {} THEN body ELSE SubSeq(body, 1, Least(dots) - 1)
      frac == IF dots = {} THEN <<>> ELSE SubSeq(body, Least(dots) + 1, Len(body))
      hundredths == 100 * Numeral(whole)
                    + (IF Len(frac) = 1 THEN 10 * Numeral(frac) ELSE Numeral(frac)) IN
  IF AllDigits(whole) /\ Cardinality(dots) <= 1
     /\ (dots = {} \/ (AllDigits(frac) /\ Len(frac) <= 2))
  THEN Some(IF neg THEN 0 - hundredths ELSE hundredths)
  ELSE None

\* validation of the float field: a number as it is, a numeric string
\* converted, anything else a ValidationError (None)
ValidFloat(v) ==
  IF v.kind = "number" THEN Some(v.n)
  ELSE IF v.kind = "string" THEN StrToFloat(v.s)
  ELSE None

\* the interpreter as parse_command meets it
Llm(service, answer, pieces) == [service |-> service, answer |-> answer, pieces |-> pieces]

\* the outcomes of _parse_with_llm: a command, or an exception that leaves it
Returns(command) == [raised |-> FALSE, ret |-> Some(command)]
Raises == [raised |-> TRUE, ret |-> None]

\* the GameCommand(...) of _parse_with_llm from a decoded object, or None for
\* the ValueError of CommandType(...) or of the validation
CommandFrom(parsed, player_input) ==
  LET type == CommandTypeOf(Get(parsed, "type", JString(<<"u","n","k","n","o","w","n">>)))
      target == ValidOptionalStr(Get(parsed, "target", JNull))
      secondary_target == ValidOptionalStr(Get(parsed, "secondary_target", JNull))
      confidence == ValidFloat(Get(parsed, "confidence", JNumber(50))) IN
  IF IsNone(type) \/ IsNone(target) \/ IsNone(secondary_target) \/ IsNone(confidence)
  THEN None
  ELSE Some(ParsedCommand(Val(type), Val(target), Val(secondary_target),
                          player_input, Val(confidence), None))

\* faulty variant: an undecodable or invalid answer gives up with unknown
ParseWithLlmGivingUp(llm, player_input, location, inventory) ==
  IF llm.answer # "text" THEN Raises
  ELSE LET found == SearchBraces(llm.pieces)
           parsed == JsonLoads(IF IsNone(found) THEN llm.pieces ELSE Val(found)) IN
       IF IsNone(parsed)
       THEN Returns(ParsedCommand("unknown", None, None, player_input, 0, None))
       ELSE IF Val(parsed).piece # "object" THEN Raises
       ELSE IF IsNone(CommandFrom(Val(parsed), player_input))
       THEN Returns(ParsedCommand("unknown", None, None, player_input, 0, None))
       ELSE Returns(Val(CommandFrom(Val(parsed), player_input)))

\* _parse_with_llm.  generate_text raises, or returns something that is not
\* a string (re.search then raises TypeError), or returns a text; a decoded
\* value that is not an object has no .get (AttributeError).
ParseWithLlm(llm, player_input, location, inventory) ==
  IF llm.answer # "text" THEN Raises
  ELSE LET found == SearchBraces(llm.pieces)
           parsed == JsonLoads(IF IsNone(found) THEN llm.pieces ELSE Val(found)) IN
       IF IsNone(parsed)
       THEN Returns(ParseWithPatterns(player_input, location, inventory))
       ELSE IF Val(parsed).piece # "object" THEN Raises
       ELSE IF IsNone(CommandFrom(Val(parsed), player_input))
       THEN Returns(ParseWithPatterns(player_input, location, inventory))
       ELSE Returns(Val(CommandFrom(Val(parsed), player_input)))

\* generate_text is called once by _parse_with_llm and nowhere else
Asked(llm) == IF llm.service = "configured" THEN 1 ELSE 0

\* faulty variant: parse_command without its try
ParseCommandUncaught(llm, player_input, location, inventory) ==
  IF llm.service = "configured"
  THEN ParseWithLlm(llm, player_input, location, inventory)
  ELSE Returns(ParseWithPatterns(player_input, location, inventory))

\* parse_command
ParseCommand(llm, player_input, location, inventory) ==
  IF llm.service = "configured"
     /\ ~ParseWithLlm(llm, player_input, location, inventory).raised
  THEN ParseWithLlm(llm, player_input, location, inventory)
  ELSE Returns(ParseWithPatterns(player_input, location, inventory))

-----------------------------------------------------------------------------
(* State machine: parse_command called with raw inputs, locations and        *)
(* interpreters of every behaviour.                                          *)

\* a location whose exit keys are words the recognizers know, and one key in
\* upper case
Crossroads ==
  Location(<<"c","r","o","s","s","r","o","a","d","s">>, <<"C","r","o","s","s","r","o","a","d","s">>, <<"A"," ","c","r","o","s","s","r","o","a","d","s",".">>,
           <<<<<<"i">>, Exit(<<"i">>, S_hall, FALSE, None)>>,
             <<<<"l","o","o","k">>, Exit(<<"l","o","o","k">>, S_hall, FALSE, None)>>,
             <<<<"h","e","l","p">>, Exit(<<"h","e","l","p">>, S_hall, FALSE, None)>>,
             <<<<"t","a","k","e">>, Exit(<<"t","a","k","e">>, S_hall, FALSE, None)>>,
             <<<<"d","r","o","p">>, Exit(<<"d","r","o","p">>, S_hall, FALSE, None)>>,
             <<<<"x">>, Exit(<<"x">>, S_hall, FALSE, None)>>,
             <<<<"u","s","e">>, Exit(<<"u","s","e">>, S_hall, FALSE, None)>>,
             <<<<"n">>, Exit(<<"n">>, S_hall, FALSE, None)>>,
             <<<<"W","e","s","t">>, Exit(<<"W","e","s","t">>, S_hall, FALSE, None)>>>>,
           <<>>)

ParserLocations == {Manor.locations[S_hall], Crossroads}

RawInputs ==
  {<<>>, <<" ">>, <<" ","\t"," ">>,
   <<"i","n","v","e","n","t","o","r","y">>, <<"I">>, <<" ","i","n","v"," ">>, <<"i">>, <<"l","o","o","k">>, <<"L">>, <<"L","o","o","k"," ","A","r","o","u","n","d">>,
   <<"h","e","l","p">>, <<"?">>,
   <<"n","o","r","t","h">>, <<"N","O","R","T","H">>, <<"g","o"," ","n","o","r","t","h">>, <<"w","a","l","k"," ","t","o"," ","t","h","e"," ","n","o","r","t","h">>, <<"g","o"," ","t","o"," ","t","h","e"," ","e","a","s","t"," ">>,
   <<"n">>, <<"e">>, <<"w","e","s","t">>, <<"g","o"," ","w","e","s","t">>, <<"r","u","n"," ","u","p">>, <<"x","y","z","z","y">>, <<"k","e","y">>,
   <<"t","a","k","e">>, <<"t","a","k","e"," ","k","e","y">>, <<"g","e","t"," ","t","h","e"," ","b","r","a","s","s"," ","k","e","y">>, <<"p","i","c","k"," ","u","p"," ","t","h","e"," ","k","e","y">>, <<"p","i","c","k","u","p">>,
   <<"d","r","o","p">>, <<"d","r","o","p"," ","k","e","y">>, <<"l","e","a","v","e"," ","t","h","e"," "," ","r","o","s","e">>,
   <<"e","x","a","m","i","n","e">>, <<"e","x","a","m","i","n","e"," ","s","t","a","t","u","e">>, <<"l","o","o","k"," ","a","t"," ","t","h","e"," ","k","e","y">>, <<"x">>, <<"x"," ","k","e","y">>,
   <<"u","s","e">>, <<"u","s","e"," ","k","e","y">>, <<"u","s","e"," ","t","h","e"," ","k","e","y"," ","o","n"," ","t","h","e"," ","d","o","o","r">>, <<"u","s","e"," ","k","e","y"," ","w","i","t","h"," ","d","o","o","r">>,
   <<"u","s","e"," "," "," ","o","n"," ","x">>, <<"d","a","n","c","e"," ","w","i","l","d","l","y">>, <<"t","a","k","e","\n","k","e","y">>, <<"d","r","o","p"," ","a","\n","b">>}

\* the fields an interpreter may put in its object
TypeFields ==
  {EmptyDict} \cup
  {"type" :> v : v \in {JString(<<"l","o","o","k">>), JString(<<"m","o","v","e">>), JString(<<"u","n","k","n","o","w","n">>),
                        JString(<<"f","l","y">>), JString(<<"L","O","O","K">>), JNumber(100), JNull}}
TargetFields ==
  {EmptyDict} \cup
  {"target" :> v : v \in {JString(<<"n","o","r","t","h">>), JNull, JNumber(100), JArray}}
ConfidenceFields ==
  {EmptyDict} \cup
  {"confidence" :> v : v \in {JNumber(95), JNumber(0), JNumber(100), JNumber(500),
                              JNumber(-100), JString(<<"0",".","9">>), JString(<<"h","i","g","h">>),
                              JNull}}
SecondaryFields == {EmptyDict, "secondary_target" :> JString(S_door)}

Objects ==
  {Object(t @@ c) : t \in TypeFields, c \in ConfidenceFields}
  \cup {Object(("type" :> JString(<<"m","o","v","e">>)) @@ x) : x \in TargetFields}
  \cup {Object(("type" :> JString(<<"u","s","e">>)) @@ ("target" :> JString(S_key)) @@ s) :
          s \in SecondaryFields}

Texts ==
  {<<>>, <<Prose>>, <<Value>>, <<OpenBrace, Prose>>, <<CloseBrace, Prose, OpenBrace>>,
   <<OpenBrace, Prose, CloseBrace>>}
  \cup {<<o>> : o \in Objects}
  \cup {<<Prose, Object(t), Prose>> : t \in TypeFields}
  \cup {<<Object("type" :> JString(<<"l","o","o","k">>)), Prose, Object("type" :> JString(<<"h","e","l","p">>))>>,
        <<Object("type" :> JString(<<"l","o","o","k">>)), CloseBrace>>}

Llms ==
  {Llm("none", "raises", <<>>), Llm("unconfigured", "raises", <<>>),
   Llm("unconfigured", "text", <<Object("type" :> JString(<<"h","e","l","p">>))>>),
   Llm("configured", "raises", <<>>), Llm("configured", "not_text", <<>>)}
  \cup {Llm("configured", "text", text) : text \in Texts}

\* one parse_command, with what it returned and how often it asked the
\* interpreter on record until Complete
ParseCall ==
  \E llm \in Llms, player_input \in RawInputs, location \in ParserLocations,
     inventory \in {<<S_key>>} :
    /\ Idle
    /\ call = NoCall
    /\ call' = [op |-> "parse_command", sid |-> MissingId,
                args |-> <<llm, player_input, location, inventory>>]
    /\ result' = ParseCommand(llm, player_input, location, inventory)
    /\ asked' = Asked(llm)
    /\ pre' = sessions
    /\ UNCHANGED <<adventures, sessions, issued, origin, clock, pc, frame>>

ParseNext == ParseCall \/ Complete

ParseSpec == Init /\ [][ParseNext]_vars

-----------------------------------------------------------------------------
(* What the checks read off a state in which parse_command is answered *)

Parsed == call.op = "parse_command"
TheLlm == call.args[1]
RawInput == call.args[2]
TheLocation == call.args[3]
Command == Val(result.ret)
Normalized == Strip(Lower(RawInput))
Fallback == ParseWithPatterns(RawInput, TheLocation, call.args[4])

\* what each recognizer of the fallback says to the input of the call
Accepted == Recognizers(Normalized, TheLocation, RawInput)
RecognizerTypes ==
  <<"inventory", "look", "help", "move", "take", "drop", "examine", "use">>

-----------------------------------------------------------------------------
(* C22: when the interpreter is absent or not configured, or its call        *)
(* raises, or its response holds no JSON object, or the one object it holds  *)
(* has a type that is not a command type or a field that fails validation,   *)
(* parse_command returns exactly the rule-based fallback's command for the   *)
(* same input and location ("inventory" gives inventory with confidence 1.0, *)
(* "look" gives look); and an interpreter that is not configured is never    *)
(* called.                                                                   *)

NotUsable == TheLlm.service \in {"none", "unconfigured"}
CallRaises == TheLlm.service = "configured" /\ TheLlm.answer = "raises"
Answers == TheLlm.service = "configured" /\ TheLlm.answer = "text"

NoObject ==
  Answers /\ \A i \in 1..Len(TheLlm.pieces) : TheLlm.pieces[i].piece # "object"

\* the response is one object, with or without prose around it
OneObject ==
  /\ Answers
  /\ Cardinality({i \in 1..Len(TheLlm.pieces) : TheLlm.pieces[i].piece = "object"}) = 1
  /\ \A i \in 1..Len(TheLlm.pieces) : TheLlm.pieces[i].piece \in {"object", "prose"}

TheObject ==
  TheLlm.pieces[CHOOSE i \in 1..Len(TheLlm.pieces) : TheLlm.pieces[i].piece = "object"].fields

TypeOutsideTheNine ==
  /\ "type" \in DOMAIN TheObject
  /\ \/ TheObject["type"].kind # "string"
     \/ TheObject["type"].s \notin
          {<<"m","o","v","e">>, <<"t","a","k","e">>, <<"d","r","o","p">>, <<"e","x","a","m","i","n","e">>, <<"u","s","e">>, <<"l","o","o","k">>,
           <<"i","n","v","e","n","t","o","r","y">>, <<"h","e","l","p">>, <<"u","n","k","n","o","w","n">>}

FieldFailsValidation ==
  \/ \E k \in {"target", "secondary_target"} :
       k \in DOMAIN TheObject /\ TheObject[k].kind \notin {"string", "null"}
  \/ /\ "confidence" \in DOMAIN TheObject
     /\ \/ TheObject["confidence"].kind \in {"null", "array"}
        \/ /\ TheObject["confidence"].kind = "string"
           /\ \E i \in 1..Len(TheObject["confidence"].s) :
                TheObject["confidence"].s[i] \notin Digits \cup {".", "-"}

InvalidObject == OneObject /\ (TypeOutsideTheNine \/ FieldFailsValidation)

Degraded == NotUsable \/ CallRaises \/ NoObject \/ InvalidObject

C22_DegradesToTheFallback ==
  Parsed =>
    /\ Degraded =>
         /\ Returned /\ Command = Fallback
         /\ Normalized = <<"i","n","v","e","n","t","o","r","y">> =>
              (Command.type = "inventory" /\ Command.confidence = 100)
         /\ Normalized = <<"l","o","o","k">> => Command.type = "look"
    /\ NotUsable => asked = 0

C22_Witness ==
  /\ Parsed /\ InvalidObject /\ FieldFailsValidation /\ ~TypeOutsideTheNine
  /\ asked = 1
  /\ Command.type = "move" /\ Command.confidence = 100

C22_BadTypeReached == Parsed /\ InvalidObject /\ TypeOutsideTheNine /\ Command.type = "take"
C22_NoObjectReached == Parsed /\ NoObject /\ Len(TheLlm.pieces) > 1 /\ Command.type = "use"
C22_RaisesReached == Parsed /\ CallRaises /\ Normalized = <<"i","n","v","e","n","t","o","r","y">>
C22_UnconfiguredReached ==
  Parsed /\ TheLlm.service = "unconfigured" /\ TheLlm.answer = "text" /\ Normalized = <<"l","o","o","k">>

-----------------------------------------------------------------------------
(* C23: parse_command raises nothing: whatever the raw input (empty and      *)
(* whitespace-only included), the location, and the interpreter's behaviour  *)
(* (an exception, any text, any kinds of values in the object), it returns a *)
(* command whose type is one of the nine command types.                      *)

C23_ParseNeverRaises ==
  Parsed => (~result.raised /\ ~IsNone(result.ret) /\ Command.type \in CommandTypes)

\* the interpreter's answer made _parse_with_llm raise, on an input of
\* whitespace only
C23_Witness ==
  /\ Parsed /\ TheLlm.service = "configured"
  /\ ParseWithLlm(TheLlm, RawInput, TheLocation, call.args[4]).raised
  /\ TheLlm.answer = "text"
  /\ Len(RawInput) > 0 /\ Normalized = <<>>

C23_NotTextReached == Parsed /\ TheLlm.service = "configured" /\ TheLlm.answer = "not_text"

-----------------------------------------------------------------------------
(* C24: the fallback decides on the lower-cased, trimmed input by the first  *)
(* recognizer that accepts it, in the order inventory, look, help, movement, *)
(* take, drop, examine, use, and unknown when none does.  So the exact words *)
(* inventory/i/inv, look/l/look around and help/? give inventory, look and   *)
(* help with confidence 1.0 even when the word is an exit key, and a single  *)
(* word that is an exit key (and none of those words) gives move to it, also *)
(* when the word is a take, drop, examine or use verb.                       *)

ExactWords ==
  [t \in {"inventory", "look", "help"} |->
     CASE t = "inventory" -> {<<"i","n","v","e","n","t","o","r","y">>, <<"i">>, <<"i","n","v">>}
       [] t = "look" -> {<<"l","o","o","k">>, <<"l">>, <<"l","o","o","k"," ","a","r","o","u","n","d">>}
       [] t = "help" -> {<<"h","e","l","p">>, <<"?">>}]

IsExitKey(s) == \E i \in 1..Len(TheLocation.exits) : TheLocation.exits[i][1] = s

AllVerbs == Range(TakeVerbs) \cup Range(DropVerbs) \cup Range(ExamineVerbs) \cup Range(UseVerbs)

C24_FirstRecognizerDecides ==
  Parsed =>
    /\ \A k \in 1..Len(RecognizerTypes) :
         (~IsNone(Accepted[k]) /\ \A j \in 1..(k - 1) : IsNone(Accepted[j]))
           => (Fallback = Val(Accepted[k]) /\ Fallback.type = RecognizerTypes[k])
    /\ (\A k \in 1..Len(RecognizerTypes) : IsNone(Accepted[k])) => Fallback.type = "unknown"
    /\ \A t \in DOMAIN ExactWords :
         Normalized \in ExactWords[t] =>
           Fallback = ParsedCommand(t, None, None, RawInput, 100, None)
    /\ (IsWord(Normalized) /\ IsExitKey(Normalized)
          /\ \A t \in DOMAIN ExactWords : Normalized \notin ExactWords[t])
         => (Fallback.type = "move" /\ Fallback.target = Some(Normalized))

\* an exact word that is an exit key
C24_Witness ==
  /\ Parsed /\ Normalized \in ExactWords["inventory"] /\ IsExitKey(Normalized)
  /\ Returned /\ Command = Fallback

\* a verb that is an exit key
C24_VerbExitReached ==
  /\ Parsed /\ Normalized \in AllVerbs /\ IsExitKey(Normalized)
  /\ Normalized \in Range(TakeVerbs)
  /\ Returned /\ Command = Fallback /\ Command.type = "move"

-----------------------------------------------------------------------------
(* C25: a move returned by the fallback has a target that is a key of the    *)
(* exits of the location given to the parser; when the movement patterns     *)
(* propose only words that are no exit keys, the fallback does not return    *)
(* move: the take, drop, examine and use recognizers decide, and unknown     *)
(* when none of them accepts.                                                *)

Proposed == MoveCandidates(Normalized)

C25_MoveTargetsAreExitKeys ==
  Parsed =>
    /\ Fallback.type = "move" =>
         (~IsNone(Fallback.target) /\ IsExitKey(Val(Fallback.target)))
    /\ (\A t \in DOMAIN ExactWords : Normalized \notin ExactWords[t])
         => (Fallback.type = "move" <=>
               \E i \in 1..Len(Proposed) : IsExitKey(Proposed[i][1]))
    /\ (/\ \A t \in DOMAIN ExactWords : Normalized \notin ExactWords[t]
        /\ Len(Proposed) > 0
        /\ \A i \in 1..Len(Proposed) : ~IsExitKey(Proposed[i][1]))
         => /\ Fallback.type \in {"take", "drop", "examine", "use", "unknown"}
            /\ Fallback.type = "unknown" <=> \A k \in 5..8 : IsNone(Accepted[k])
            /\ Fallback.type # "unknown" =>
                 \E k \in 5..8 : Accepted[k] = Some(Fallback)

\* verb plus word proposed, the word no exit key: unknown
C25_Witness ==
  /\ Parsed /\ Returned /\ Command = Fallback
  /\ ~IsNone(GoDirection(Normalized)) /\ ~IsExitKey(Val(GoDirection(Normalized)))
  /\ Command.type = "unknown"

\* a bare word proposed, no exit key, and a later recognizer accepts it
C25_FallsThroughReached ==
  /\ Parsed /\ Returned /\ Command = Fallback
  /\ IsWord(Normalized) /\ ~IsExitKey(Normalized) /\ Command.type = "take"

C25_DirectionWordReached ==
  /\ Parsed /\ Returned /\ Command = Fallback
  /\ Normalized \in DirectionWords /\ ~IsExitKey(Normalized) /\ Command.type = "unknown"

-----------------------------------------------------------------------------
(* C26: when no recognizer of the fallback accepts the input, as for empty   *)
(* and whitespace-only input and for a bare drop, examine or use verb that   *)
(* is no exit key, the fallback returns unknown with confidence 0.0, the raw *)
(* input as given (untrimmed), no target, and an error_message that is not   *)
(* empty, contains the raw input and mentions help.                          *)

BareVerbs == {<<"d","r","o","p">>, <<"d","i","s","c","a","r","d">>, <<"l","e","a","v","e">>, <<"e","x","a","m","i","n","e">>, <<"i","n","s","p","e","c","t">>, <<"l","o","o","k"," ","a","t">>,
              <<"c","h","e","c","k">>, <<"x">>, <<"u","s","e">>}

NoneAccepts == \A k \in 1..Len(RecognizerTypes) : IsNone(Accepted[k])

C26_UnknownIsTheLastResort ==
  Parsed =>
    /\ (Normalized = <<>> \/ (Normalized \in BareVerbs /\ ~IsExitKey(Normalized)))
         => NoneAccepts
    /\ NoneAccepts =>
         /\ Fallback.type = "unknown"
         /\ Fallback.confidence = 0
         /\ Fallback.raw_input = RawInput
         /\ IsNone(Fallback.target) /\ IsNone(Fallback.secondary_target)
         /\ ~Falsy(Fallback.error_message)
         /\ Contains(RawInput, Val(Fallback.error_message))
         /\ Contains(<<"h","e","l","p">>, Val(Fallback.error_message))

\* whitespace-only input, which the trim empties
C26_Witness ==
  /\ Parsed /\ Returned /\ Command = Fallback
  /\ Len(RawInput) > 1 /\ Normalized = <<>>
  /\ Command.type = "unknown"

C26_BareVerbReached ==
  /\ Parsed /\ Returned /\ Command = Fallback
  /\ Normalized \in BareVerbs /\ ~IsExitKey(Normalized) /\ Command.type = "unknown"

-----------------------------------------------------------------------------
(* C27: every command parse_command returns, from the interpreter's answer   *)
(* as from the fallback, has a confidence in the closed interval [0,1],      *)
(* whatever confidence the interpreter put in its response.                  *)

C27_ConfidenceInUnitInterval ==
  (Parsed /\ Returned) => Command.confidence \in 0..100

\* the fallback's part: its confidences are 1.0, 0.8, 0.7, 0.5 and 0.0
C27_FallbackConfidences == Parsed => Fallback.confidence \in {0, 50, 70, 80, 100}

C27_OutOfRangeReached ==
  /\ Parsed /\ Returned /\ OneObject
  /\ "confidence" \in DOMAIN TheObject /\ TheObject["confidence"] = JNumber(500)
  /\ Command.confidence = 500

-----------------------------------------------------------------------------
(* C28: every command of type unknown that parse_command returns carries an  *)
(* error_message that is not empty, whether the fallback produced it or the  *)
(* interpreter answered with type "unknown".                                 *)

C28_UnknownCarriesAMessage ==
  (Parsed /\ Returned /\ Command.type = "unknown") => ~Falsy(Command.error_message)

\* the fallback's part
C28_FallbackUnknownCarriesAMessage ==
  (Parsed /\ Fallback.type = "unknown") => ~Falsy(Fallback.error_message)

C28_SilentUnknownReached ==
  /\ Parsed /\ Returned /\ OneObject
  /\ "type" \in DOMAIN TheObject /\ TheObject["type"] = JString(<<"u","n","k","n","o","w","n">>)
  /\ Command.type = "unknown" /\ IsNone(Command.error_message)

-----------------------------------------------------------------------------
(* State machine: two callers on one session, interleaved at the store's     *)
(* reads and writes as above, with each call's end on record: what execute   *)
(* returned, or that the call raised, and whether another caller wrote the   *)
(* table while the call was under way.                                       *)

RaceCommands ==
  {GameCommand("take", Some(S_brass), None, S_xyzzy, None),
   GameCommand("drop", Some(S_KE), None, S_xyzzy, None),
   GameCommand("move", Some(S_north), None, S_xyzzy, None)}

\* what the handler returns once its store calls have returned: the result
\* is built from the session, adventure and location execute read at its
\* start and from nothing the store calls return
HandlerAnswer(db, now, table, command, session_id) ==
  (CHOOSE o \in Execute(Store(db, now), table, command, session_id) : ~o.raised).ret

Running(kind, sid, plan, answer) ==
  [kind |-> kind, sid |-> sid, plan |-> plan, steps |-> plan, local |-> None,
   answer |-> answer, raised |-> FALSE, interfered |-> FALSE, lost |-> FALSE,
   deleted |-> FALSE]

\* the change of the first store call of a plan is in the table
ChangeIn(db, sid, plan) ==
  /\ Has(db, sid)
  /\ CASE plan[1].op = "add_item" -> plan[1].args[1] \in Range(Doc(db, sid).inventory)
       [] plan[1].op = "move_to_location" ->
            Doc(db, sid).current_location_id = plan[1].args[1]
       [] plan[1].op = "remove_item" ->
            plan[1].args[1] \notin Range(Doc(db, sid).inventory)

\* the store call op is one that takes that change back by what it does
Undoes(op, plan) ==
  \/ op = "remove_item" /\ plan[1].op = "add_item"
  \/ op = "add_item" /\ plan[1].op = "remove_item"
  \/ op = "move_to_location" /\ plan[1].op = "move_to_location"

\* history: a delete of caller c, seen from the calls under way
Interfering(c, f) ==
  [d \in Callers |->
     IF d # c /\ pc[d] # "idle"
     THEN [f[d] EXCEPT !.interfered = TRUE, !.deleted = TRUE]
     ELSE f[d]]

\* history: a save of caller c that makes the table db, seen from the calls
\* under way.  The change of a call is lost when it was in the table and is
\* not in db, and the store call of c is not one that takes it back.
Overwriting(c, f, db) ==
  [d \in Callers |->
     IF d # c /\ pc[d] # "idle"
     THEN [f[d] EXCEPT !.interfered = TRUE,
                       !.lost = \/ @
                                \/ /\ Len(f[d].steps) < Len(f[d].plan)
                                   /\ ChangeIn(sessions, f[d].sid, f[d].plan)
                                   /\ ~ChangeIn(db, f[d].sid, f[d].plan)
                                   /\ ~Undoes(Head(f[c].steps).op, f[d].plan)]
     ELSE f[d]]

\* caller c calls execute: the lookups, the routing and the handler's checks
RaceExecute(c) ==
  /\ pc[c] = "idle"
  /\ \E sid \in SessionIds, command \in RaceCommands :
       LET plan == ExecutePlan(sessions, adventures, command, sid) IN
       /\ frame' = [frame EXCEPT ![c] =
            Running("execute", sid, plan,
                    HandlerAnswer(sessions, clock, adventures, command, sid))]
       /\ pc' = [pc EXCEPT ![c] = IF Len(plan) = 0 THEN "done" ELSE "get"]
  /\ UNCHANGED <<adventures, sessions, issued, origin, clock, pre, call, result, asked>>

\* caller c calls remove_item itself
RaceRemove(c) ==
  /\ pc[c] = "idle"
  /\ \E sid \in SessionIds :
       /\ frame' = [frame EXCEPT ![c] =
            Running("remove_item", sid, <<StoreCall("remove_item", <<S_key>>)>>, None)]
       /\ pc' = [pc EXCEPT ![c] = "get"]
  /\ UNCHANGED <<adventures, sessions, issued, origin, clock, pre, call, result, asked>>

\* caller c calls delete_session: one table.remove
RaceDelete(c) ==
  /\ pc[c] = "idle"
  /\ \E sid \in SessionIds :
       /\ Has(sessions, sid)
       /\ \E o \in DeleteSession(Store(sessions, clock), sid) : sessions' = o.st.db
  /\ frame' = Interfering(c, frame)
  /\ UNCHANGED <<adventures, issued, origin, clock, pre, call, result, pc, asked>>

\* the get_session of the store call at the head of c's plan; its ValueError
\* is caught nowhere and ends the call of c
RaceGet(c) ==
  /\ pc[c] = "get"
  /\ LET m == Head(frame[c].steps)
         found == GetSession(sessions, frame[c].sid) IN
     IF MutatorRaises(m, found)
     THEN /\ pc' = [pc EXCEPT ![c] = "done"]
          /\ frame' = [frame EXCEPT ![c].raised = TRUE, ![c].answer = None]
     ELSE /\ pc' = [pc EXCEPT ![c] = "save"]
          /\ frame' = [frame EXCEPT ![c].local = Some(Mutated(m, Val(found)))]
  /\ UNCHANGED <<adventures, sessions, issued, origin, clock, pre, call, result, asked>>

\* the save_session of that store call, then the next store call of the plan
\* or the return
RaceSave(c) ==
  /\ pc[c] = "save"
  /\ \E o \in SaveSession(Store(sessions, clock), Val(frame[c].local)) :
       /\ sessions' = o.st.db
       /\ clock' = o.st.clock
  /\ IF Len(frame[c].steps) > 1
     THEN /\ pc' = [pc EXCEPT ![c] = "get"]
          /\ frame' = [Overwriting(c, frame, sessions')
                         EXCEPT ![c].steps = Tail(@), ![c].local = None]
     ELSE /\ pc' = [pc EXCEPT ![c] = "done"]
          /\ frame' = [Overwriting(c, frame, sessions')
                         EXCEPT ![c].steps = <<>>, ![c].local = None]
  /\ UNCHANGED <<adventures, issued, origin, pre, call, result, asked>>

\* the caller has its answer
RaceReturn(c) ==
  /\ pc[c] = "done"
  /\ pc' = [pc EXCEPT ![c] = "idle"]
  /\ frame' = [frame EXCEPT ![c] = <<>>]
  /\ UNCHANGED <<adventures, sessions, issued, origin, clock, pre, call, result, asked>>

\* a game of the manor starts; its answer is not kept
RaceNewGame ==
  /\ call = NoCall
  /\ \E id \in SessionIds :
       /\ id \notin issued
       /\ issued' = issued \cup {id}
       /\ origin' = DictSet(origin, id, Manor.starting_location_id)
       /\ \E o \in CreateSession(Store(sessions, clock), id, Manor.id,
                                 Manor.starting_location_id, None) :
            /\ sessions' = o.st.db
            /\ clock' = o.st.clock
  /\ UNCHANGED <<adventures, pre, call, result, pc, frame, asked>>

RaceNext ==
  \/ RaceNewGame
  \/ \E c \in Callers : RaceExecute(c)
  \/ \E c \in Callers : RaceRemove(c)
  \/ \E c \in Callers : RaceDelete(c)
  \/ \E c \in Callers : RaceGet(c)
  \/ \E c \in Callers : RaceSave(c)
  \/ \E c \in Callers : RaceReturn(c)

RaceSpec == Init /\ [][RaceNext]_vars

-----------------------------------------------------------------------------
(* C29: get-mutate-save is not atomic.  With two callers on one session, a   *)
(* command that returned success with its changed flag set can find its      *)
(* change missing from the stored session, the other caller's save having    *)
(* put back what it had read before; and that is the only way: a successful  *)
(* take, move or drop during which no other caller wrote has its change in   *)
(* the stored session when it returns.                                       *)

Ended(c) == pc[c] = "done" /\ frame[c].kind = "execute"
Succeeded(c) == Ended(c) /\ ~frame[c].raised /\ Val(frame[c].answer).success
Stored(c) == Doc(sessions, frame[c].sid)
FirstWrite(c) == frame[c].plan[1]

\* the change of the command of c is in the stored session
ChangeStored(c) == ChangeIn(sessions, frame[c].sid, frame[c].plan)

C29_LossOnlyByInterference ==
  \A c \in Callers :
    (Succeeded(c) /\ Len(frame[c].plan) > 0 /\ ~frame[c].interfered) => ChangeStored(c)

\* a take returned inventory_changed=true, the session is stored, and the
\* item is not in its inventory: a save of the other caller overwrote it
C29_Witness ==
  \E c \in Callers :
    /\ Succeeded(c) /\ Val(frame[c].answer).inventory_changed
    /\ FirstWrite(c).op = "add_item"
    /\ Has(sessions, frame[c].sid)
    /\ FirstWrite(c).args[1] \notin Range(Stored(c).inventory)
    /\ frame[c].lost

\* a move returned location_changed=true and the stored session is where it
\* was before
C29_LostMoveReached ==
  \E c \in Callers :
    /\ Succeeded(c) /\ Val(frame[c].answer).location_changed
    /\ FirstWrite(c).op = "move_to_location"
    /\ Has(sessions, frame[c].sid)
    /\ Stored(c).current_location_id # FirstWrite(c).args[1]
    /\ frame[c].lost

-----------------------------------------------------------------------------
(* C30: every execute call ends by returning a CommandResult, never by       *)
(* raising, also when another caller deletes the session or removes the      *)
(* matched inventory item between the executor's read of the session and     *)
(* the store write of its move, take or drop handler.                        *)

C30_ExecuteNeverRaises ==
  \A c \in Callers : Ended(c) => (~frame[c].raised /\ ~IsNone(frame[c].answer))

\* what holds instead: an execute call during which no other caller wrote
\* returns a result
C30_UndisturbedExecuteReturns ==
  \A c \in Callers :
    (Ended(c) /\ ~frame[c].interfered) => (~frame[c].raised /\ ~IsNone(frame[c].answer))

\* the session was deleted under a move or a take
C30_RaisedAfterDeleteReached ==
  \E c \in Callers :
    /\ Ended(c) /\ frame[c].raised
    /\ ~Has(sessions, frame[c].sid)
    /\ Head(frame[c].steps).op \in {"move_to_location", "add_item", "set_location_flag"}

\* the item was removed under a drop
C30_RaisedAfterRemoveReached ==
  \E c \in Callers :
    /\ Ended(c) /\ frame[c].raised
    /\ Has(sessions, frame[c].sid)
    /\ Head(frame[c].steps).op = "remove_item"

-----------------------------------------------------------------------------
(* C31: when the interpreter's response holds a well-formed JSON command     *)
(* object, the returned command is decoded from the first such object,       *)
(* whatever surrounds it: prose, prose with brace characters after the       *)
(* object, or a second JSON object.                                          *)

ObjectsAt == {i \in 1..Len(TheLlm.pieces) : TheLlm.pieces[i].piece = "object"}
FirstObject == TheLlm.pieces[Least(ObjectsAt)]

HoldsACommandObject ==
  /\ Answers
  /\ ObjectsAt # {}
  /\ ~IsNone(CommandFrom(FirstObject, RawInput))

C31_DecodesTheFirstObject ==
  (Parsed /\ HoldsACommandObject) =>
    (Returned /\ Command = Val(CommandFrom(FirstObject, RawInput)))

\* the part that holds: one object with prose around it and no other brace
C31_DecodesTheOnlyObject ==
  (Parsed /\ HoldsACommandObject /\ OneObject) =>
    (Returned /\ Command = Val(CommandFrom(FirstObject, RawInput)))

\* one object wrapped in prose on both sides was decoded
C31_WrappedObjectReached ==
  /\ Parsed /\ HoldsACommandObject /\ OneObject
  /\ Len(TheLlm.pieces) = 3
  /\ Command.type = "move" /\ Fallback.type = "unknown"

\* a second object follows the first: the fallback answered, not the object
C31_SecondObjectReached ==
  /\ Parsed /\ HoldsACommandObject
  /\ Cardinality(ObjectsAt) = 2
  /\ Returned /\ Command = Fallback
  /\ Command.type = "unknown"
  /\ Val(CommandFrom(FirstObject, RawInput)).type = "look"

\* a brace in the prose after the object: the fallback answered
C31_BraceAfterReached ==
  /\ Parsed /\ HoldsACommandObject
  /\ Cardinality(ObjectsAt) = 1
  /\ TheLlm.pieces[Len(TheLlm.pieces)].piece = "close"
  /\ Returned /\ Command = Fallback
  /\ Command.type = "unknown"

-----------------------------------------------------------------------------
(* State machine: take and examine at one location whose item list is any    *)
(* order of three items that match the word "lamp" in three ways, each       *)
(* visible or not and takeable or not.                                       *)

\* name contains the word, id equals it but for case, name equals it
ShelfPool ==
  <<[id |-> <<"a","1">>, name |-> <<"O","i","l"," ","L","a","m","p">>, description |-> <<"A","n"," ","o","i","l"," ","l","a","m","p",".">>],
    [id |-> <<"L","A","M","P">>, name |-> <<"T","o","r","c","h">>, description |-> <<"A"," ","t","o","r","c","h",".">>],
    [id |-> <<"c","3">>, name |-> <<"l","a","m","p">>, description |-> <<"A"," ","s","m","a","l","l"," ","l","a","m","p",".">>]>>

ShelfOrders == {o \in [1..3 -> 1..3] : \A i, j \in 1..3 : o[i] = o[j] => i = j}

ShelfItems ==
  {[i \in 1..3 |-> Item(ShelfPool[o[i]].id, ShelfPool[o[i]].name,
                        ShelfPool[o[i]].description, t[i], v[i])] :
     o \in ShelfOrders, t \in [1..3 -> BOOLEAN], v \in [1..3 -> BOOLEAN]}

Shelf(items) ==
  Adventure(<<"s","h","e","l","f">>, <<"r","o","o","m">>,
    (<<"r","o","o","m">> :> Location(<<"r","o","o","m">>, <<"R","o","o","m">>, <<"A"," ","r","o","o","m",".">>, <<>>, items)))

FindTargets == {<<"L","a","m","p">>, <<"o","i","l">>, <<"t","o","r","c","h">>, <<"c","3">>, <<"l","a","m","p"," ","x">>}

FindCommands ==
  {GameCommand(t, Some(x), None, S_xyzzy, None) :
     t \in {"take", "examine"}, x \in FindTargets}

FindInit ==
  /\ adventures \in {<<Shelf(items)>> : items \in ShelfItems}
  /\ sessions = <<>>
  /\ issued = {}
  /\ origin = EmptyDict
  /\ clock = 0
  /\ pre = <<>>
  /\ call = NoCall
  /\ result = NoResult
  /\ pc = [c \in Callers |-> "idle"]
  /\ frame = [c \in Callers |-> <<>>]
  /\ asked = 0

FindCall ==
  \E sid \in SessionIds, command \in FindCommands :
    /\ Apply("execute", sid, <<command>>,
             Execute(Store(sessions, clock), adventures, command, sid))
    /\ UNCHANGED <<issued, origin>>

FindNext == NewGame \/ FindCall \/ Complete

FindSpec == FindInit /\ [][FindNext]_vars

-----------------------------------------------------------------------------
(* C32: for take and examine the item acted on is the first item, in the     *)
(* location's item order, that is visible and whose name equals the target,  *)
(* or whose name contains it, or whose id equals it, all without regard to   *)
(* case.  Invisible items are never matched, and when that first item is     *)
(* untakeable or already held, take fails even if a later matching item is   *)
(* takeable and not held.                                                    *)

ItemsBefore == LocationBefore.items
TargetLower == Lower(Val(Cmd.target))

MatchingAt ==
  {i \in 1..Len(ItemsBefore) :
     /\ ItemsBefore[i].visible
     /\ \/ Lower(ItemsBefore[i].name) = TargetLower
        \/ Contains(TargetLower, Lower(ItemsBefore[i].name))
        \/ Lower(ItemsBefore[i].id) = TargetLower}

FirstMatch == ItemsBefore[Least(MatchingAt)]

C32_FirstMatchWins ==
  /\ (Handled("take") /\ ~Falsy(Cmd.target)) =>
       /\ Returned
       /\ IF MatchingAt = {}
          THEN ~Answer.success /\ sessions = pre
          ELSE IF ~FirstMatch.takeable
          THEN /\ ~Answer.success /\ sessions = pre
               /\ Answer.message = <<"Y","o","u"," ","c","a","n","'","t"," ","t","a","k","e"," ","t","h","e"," ">> \o FirstMatch.name \o <<".">>
          ELSE IF FirstMatch.id \in Range(SessionBefore.inventory)
          THEN /\ ~Answer.success /\ sessions = pre
               /\ Answer.message = <<"Y","o","u"," ","a","l","r","e","a","d","y"," ","h","a","v","e"," ","t","h","e"," ">> \o FirstMatch.name \o <<".">>
          ELSE /\ Answer.success
               /\ Answer.message = <<"Y","o","u"," ","t","a","k","e"," ","t","h","e"," ">> \o FirstMatch.name \o <<".">>
               /\ SessionAfter.inventory = Append(SessionBefore.inventory, FirstMatch.id)
  /\ (Handled("examine") /\ ~Falsy(Cmd.target)) =>
       /\ Returned
       /\ IF MatchingAt # {}
          THEN /\ Answer.success
               /\ Answer.message = FirstMatch.name \o <<":"," ">> \o FirstMatch.description
          ELSE \A i \in 1..Len(ItemsBefore) :
                 Answer.message # ItemsBefore[i].name \o <<":"," ">> \o ItemsBefore[i].description

\* the first match is held, a later item matches and is takeable and not
\* held, and the take failed
C32_Witness ==
  /\ Handled("take") /\ ~Falsy(Cmd.target) /\ MatchingAt # {}
  /\ FirstMatch.takeable
  /\ FirstMatch.id \in Range(SessionBefore.inventory)
  /\ \E i \in MatchingAt :
       /\ i > Least(MatchingAt)
       /\ ItemsBefore[i].takeable
       /\ ItemsBefore[i].id \notin Range(SessionBefore.inventory)
  /\ Returned /\ ~Answer.success

\* the first match is untakeable and a later matching item is takeable
C32_UntakeableFirstReached ==
  /\ Handled("take") /\ ~Falsy(Cmd.target) /\ MatchingAt # {}
  /\ ~FirstMatch.takeable
  /\ \E i \in MatchingAt : i > Least(MatchingAt) /\ ItemsBefore[i].takeable
  /\ Returned /\ ~Answer.success

\* an invisible item that the words would match stands before the item found
C32_InvisibleSkippedReached ==
  /\ Handled("examine") /\ ~Falsy(Cmd.target) /\ MatchingAt # {}
  /\ Least(MatchingAt) > 1
  /\ ~ItemsBefore[1].visible
  /\ Lower(ItemsBefore[1].name) = TargetLower
  /\ Returned /\ Answer.success

\* the item found matches by its id only, and an item whose name equals the
\* target comes later
C32_IdBeforeNameReached ==
  /\ Handled("take") /\ ~Falsy(Cmd.target) /\ MatchingAt # {}
  /\ Lower(FirstMatch.id) = TargetLower
  /\ ~Contains(TargetLower, Lower(FirstMatch.name))
  /\ \E i \in MatchingAt : Lower(ItemsBefore[i].name) = TargetLower
  /\ Returned /\ Answer.success

-----------------------------------------------------------------------------
(* C33: no sequence of commands takes a session through an exit whose locked *)
(* flag is true: holding the exit's required_item, or executing use on it,   *)
(* unlocks nothing.  So a location that is not the starting location and     *)
(* whose every incoming exit is locked is never the current_location_id of   *)
(* a session and is in no visited set.                                       *)

\* l is not where the adventure starts and every exit that leads to l is
\* locked
Sealed(adventure, l) ==
  /\ l # adventure.starting_location_id
  /\ \A m \in DOMAIN adventure.locations :
       \A i \in 1..Len(adventure.locations[m].exits) :
         adventure.locations[m].exits[i][2].location_id = l
           => adventure.locations[m].exits[i][2].locked

C33_LockedExitsAreNeverPassed ==
  \A i \in 1..Len(sessions) :
    LET adventure == GetAdventure(adventures, sessions[i].adventure_id) IN
    ~IsNone(adventure) =>
      \A l \in DOMAIN Val(adventure).locations :
        Sealed(Val(adventure), l) =>
          /\ sessions[i].current_location_id # l
          /\ l \notin Range(sessions[i].visited_locations)

\* a session that has been elsewhere and holds the required item tries the
\* locked exit to a sealed location, and stays
C33_Witness ==
  /\ MoveAtLockedExit
  /\ Sealed(AdventureBefore, LockedExit.location_id)
  /\ ~IsNone(LockedExit.required_item)
  /\ Val(LockedExit.required_item) \in Range(SessionBefore.inventory)
  /\ Cardinality(SessionBefore.visited_locations) > 1
  /\ Returned /\ ~Answer.success
  /\ SessionAfter.current_location_id = SessionBefore.current_location_id

\* use of the required item on something succeeded next to the locked exit
C33_UseReached ==
  /\ Handled("use") /\ Returned /\ Answer.success
  /\ ~IsNone(Cmd.secondary_target)
  /\ \E i \in 1..Len(LocationBefore.exits) :
       /\ LocationBefore.exits[i][2].locked
       /\ LocationBefore.exits[i][2].required_item = Cmd.target
       /\ Sealed(AdventureBefore, LocationBefore.exits[i][2].location_id)

-----------------------------------------------------------------------------
(* C34: the executor does not check that an exit's target exists.  A move    *)
(* through an unlocked exit whose target id is not a key of the adventure's  *)
(* locations returns success=true with location_changed=true and stores     *)
(* that id as current_location_id; from then on every execute call on that   *)
(* session, whatever the command type, returns the failed result "Current    *)
(* location not found", and the stored session never changes again.         *)

DanglingMove ==
  /\ MoveThroughOpenExit
  /\ OpenExitTarget \notin DOMAIN AdventureBefore.locations

\* the stored record doc is at a location its adventure does not have
Stranded(doc) ==
  LET adventure == GetAdventure(adventures, doc.adventure_id) IN
  /\ ~IsNone(adventure)
  /\ doc.current_location_id \notin DOMAIN Val(adventure).locations

C34_Step ==
  /\ DanglingMove' =>
       (/\ Returned /\ Answer.success /\ Answer.location_changed
        /\ Has(sessions, call.sid)
        /\ SessionAfter.current_location_id = OpenExitTarget
        /\ Stranded(Doc(sessions, call.sid)))'
  /\ \A i \in 1..Len(sessions) :
       Stranded(sessions[i]) =>
         /\ Has(sessions', sessions[i].id)
         /\ Doc(sessions', sessions[i].id) = sessions[i]
         /\ (call = NoCall /\ call'.op = "execute" /\ call'.sid = sessions[i].id) =>
              /\ ~result'.raised
              /\ result'.ret =
                   Some(CommandResult(FALSE, <<"C","u","r","r","e","n","t"," ","l","o","c","a","t","i","o","n"," ","n","o","t"," ","f","o","u","n","d">>, FALSE, FALSE))

C34_DanglingExitStrands == [][C34_Step]_vars

\* a session stranded by an earlier move is asked for help, and is refused
C34_Witness ==
  /\ Executed /\ Has(pre, call.sid)
  /\ Stranded(Doc(pre, call.sid))
  /\ Cardinality(SessionBefore.visited_locations) > 1
  /\ Cmd.type = "help"
  /\ Returned /\ ~Answer.success
  /\ sessions = pre

\* the move through the dangling exit succeeded
C34_DanglingMoveReached ==
  /\ DanglingMove /\ Returned /\ Answer.success /\ Answer.location_changed
  /\ Stranded(Doc(sessions, call.sid))

-----------------------------------------------------------------------------
(* C35: in every reachable state of the table, every stored session's        *)
(* current_location_id is a member of its own visited_locations, under       *)
(* create_session, execute and the store's mutators, with the get and save   *)
(* steps of two callers on the same session interleaved in every way.        *)

C35_CurrentLocationIsVisited ==
  \A i \in 1..Len(sessions) :
    sessions[i].current_location_id \in Range(sessions[i].visited_locations)

\* a caller that read the session in the hall has just put its copy back
\* over the record of a session that had gone to the garden
C35_Witness ==
  \E c \in Callers :
    /\ pc[c] = "done" /\ frame[c].lost
    /\ FirstWrite(c).op = "move_to_location"
    /\ Has(sessions, frame[c].sid)
    /\ Stored(c).current_location_id = S_hall
    /\ S_garden \notin Range(Stored(c).visited_locations)

\* a copy about to be saved is at a location the stored record has not
\* visited
C35_CopyAheadReached ==
  \E c \in Callers :
    /\ pc[c] = "save"
    /\ Has(sessions, frame[c].sid)
    /\ Val(frame[c].local).current_location_id
         \notin Range(Doc(sessions, frame[c].sid).visited_locations)

-----------------------------------------------------------------------------
(* C36: the stored visited_locations of a session never loses a member, also *)
(* when the get and save steps of two callers' commands on the same session  *)
(* interleave: in every step the visited list of a record that stays in the  *)
(* table holds every member it held before.                                  *)

VisitedKept(before, after) ==
  \A i \in 1..Len(before) :
    Has(after, before[i].id) =>
      Range(before[i].visited_locations)
        \subseteq Range(Doc(after, before[i].id).visited_locations)

C36_VisitedNeverShrinksInterleaved == [][VisitedKept(sessions, sessions')]_vars

\* what holds instead: the save of a call during which no other caller wrote
\* loses no member
C36_UndisturbedSaveKeepsVisited ==
  [][(\A c \in Callers : (pc[c] = "save" /\ pc'[c] # "save") => ~frame[c].interfered)
       => VisitedKept(sessions, sessions')]_vars

\* a move returned location_changed=true and its target is not in the stored
\* visited list: the other caller saved the copy it had read before the move
C36_VisitLostReached ==
  \E c \in Callers :
    /\ Succeeded(c) /\ Val(frame[c].answer).location_changed
    /\ FirstWrite(c).op = "move_to_location"
    /\ frame[c].lost
    /\ Has(sessions, frame[c].sid)
    /\ FirstWrite(c).args[1] \notin Range(Stored(c).visited_locations)

-----------------------------------------------------------------------------
(* C37: deleted is a terminal state of a session.  Once delete_session(id)   *)
(* has completed, the id is not in the table in any later state, also when a *)
(* mutator that read the session before the delete writes after it: no       *)
(* operation puts a deleted session back.                                    *)

\* the id was handed out by create_session and its record is not in the
\* table: it has been deleted
Deleted(id) == id \in issued /\ ~Has(sessions, id)

C37_DeletedIsTerminal ==
  [][\A id \in SessionIds : Deleted(id) => ~Has(sessions', id)]_vars

\* what holds instead: only the save of a copy read before the delete puts
\* the record back
C37_OnlyAStaleSavePutsBack ==
  [][\A id \in SessionIds :
       (Deleted(id) /\ Has(sessions', id)) =>
         \E c \in Callers :
           /\ pc[c] = "save" /\ pc'[c] # "save"
           /\ frame[c].sid = id /\ frame[c].interfered
           /\ Doc(sessions', id).created_at = IsoFormat(Val(frame[c].local).created_at)]_vars

\* the session was deleted while the take of c was under way; the take has
\* returned inventory_changed=true and the record is in the table again
C37_PutBackReached ==
  \E c \in Callers :
    /\ Succeeded(c) /\ Val(frame[c].answer).inventory_changed
    /\ frame[c].deleted
    /\ Has(sessions, frame[c].sid)

-----------------------------------------------------------------------------
(* State machine: two sessions of the same adventure, each played by its own *)
(* caller, the calls interleaved at the store's reads and writes.  The last  *)
(* write to the table is on record in call: the operation and the session    *)
(* id it was called with.                                                    *)

IsoIds == {"s1", "s2"}

\* the session caller c plays
Played(c) == IF c = 1 THEN "s1" ELSE "s2"

IsoCommands ==
  {GameCommand("take", Some(S_brass), None, S_xyzzy, None),
   GameCommand("move", Some(S_north), None, S_xyzzy, None)}

Wrote(op, sid, args) == call' = [op |-> op, sid |-> sid, args |-> args]

\* a game of the manor starts under a new id
IsoNewGame ==
  /\ \E id \in IsoIds :
       /\ id \notin issued
       /\ issued' = issued \cup {id}
       /\ origin' = DictSet(origin, id, Manor.starting_location_id)
       /\ \E o \in CreateSession(Store(sessions, clock), id, Manor.id,
                                 Manor.starting_location_id, None) :
            /\ sessions' = o.st.db
            /\ clock' = o.st.clock
       /\ Wrote("create_session", id, <<>>)
  /\ UNCHANGED <<adventures, pre, result, pc, frame, asked>>

\* caller c calls execute: it runs to the handler's first store call (a call
\* whose handler makes no store call writes nothing and takes no step here)
IsoExecute(c) ==
  /\ pc[c] = "idle"
  /\ \E command \in IsoCommands :
       LET plan == ExecutePlan(sessions, adventures, command, Played(c)) IN
       /\ Len(plan) > 0
       /\ Started(c, Played(c), plan)
  /\ UNCHANGED <<adventures, sessions, issued, origin, clock, pre, call, result, asked>>

\* the get_session of the mutator at the head of c's plan
IsoGet(c) ==
  /\ pc[c] = "get"
  /\ LET m == Head(frame[c].steps)
         found == GetSession(sessions, frame[c].sid) IN
     IF MutatorRaises(m, found)
     THEN /\ pc' = [pc EXCEPT ![c] = "idle"]
          /\ frame' = [frame EXCEPT ![c] = <<>>]
     ELSE /\ pc' = [pc EXCEPT ![c] = "save"]
          /\ frame' = [frame EXCEPT ![c].local = Some(Mutated(m, Val(found)))]
  /\ UNCHANGED <<adventures, sessions, issued, origin, clock, pre, call, result, asked>>

\* the save_session of that mutator
IsoSave(c) ==
  /\ pc[c] = "save"
  /\ \E o \in SaveSession(Store(sessions, clock), Val(frame[c].local)) :
       /\ sessions' = o.st.db
       /\ clock' = o.st.clock
  /\ Wrote(Head(frame[c].steps).op, frame[c].sid, Head(frame[c].steps).args)
  /\ IF Len(frame[c].steps) > 1
     THEN /\ pc' = [pc EXCEPT ![c] = "get"]
          /\ frame' = [frame EXCEPT ![c].steps = Tail(@), ![c].local = None]
     ELSE /\ pc' = [pc EXCEPT ![c] = "idle"]
          /\ frame' = [frame EXCEPT ![c] = <<>>]
  /\ UNCHANGED <<adventures, issued, origin, pre, result, asked>>

\* delete_session of a stored session
IsoDelete ==
  /\ \E sid \in IsoIds :
       /\ Has(sessions, sid)
       /\ \E o \in DeleteSession(Store(sessions, clock), sid) : sessions' = o.st.db
       /\ Wrote("delete_session", sid, <<>>)
  /\ UNCHANGED <<adventures, issued, origin, clock, pre, result, pc, frame, asked>>

IsoNext ==
  \/ IsoNewGame
  \/ IsoDelete
  \/ \E c \in Callers : IsoExecute(c)
  \/ \E c \in Callers : IsoGet(c)
  \/ \E c \in Callers : IsoSave(c)

IsoSpec == Init /\ [][IsoNext]_vars

-----------------------------------------------------------------------------
(* C38: sessions are isolated.  A write of an execute call or of a store     *)
(* operation addressed to one session id leaves the stored record of every   *)
(* other id exactly as it was, timestamps included, also when both sessions  *)
(* play the same adventure and the calls on them interleave.                 *)

C38_Step ==
  \A id \in IsoIds :
    (sessions' # sessions /\ id # call'.sid) =>
      TableGet(sessions', id) = TableGet(sessions, id)

C38_SessionsAreIsolated == [][C38_Step]_vars

\* two sessions of the manor are stored, a move on one has just been saved
\* while a call on the other holds a copy it has yet to save, and the other
\* record is older than the clock
C38_Witness ==
  /\ Len(sessions) = 2
  /\ sessions[1].adventure_id = sessions[2].adventure_id
  /\ call.op = "move_to_location"
  /\ Has(sessions, call.sid)
  /\ Doc(sessions, call.sid).current_location_id = S_garden
  /\ \E c \in Callers, id \in IsoIds :
       /\ pc[c] = "save" /\ frame[c].sid = id /\ id # call.sid
       /\ Doc(sessions, id).current_location_id = S_hall
       /\ Doc(sessions, id).last_played_at # Doc(sessions, call.sid).last_played_at

\* one session was deleted and the other is still stored
C38_DeleteReached ==
  /\ call.op = "delete_session"
  /\ Len(sessions) = 1
  /\ sessions[1].id # call.sid
  /\ Len(sessions[1].inventory) > 0

-----------------------------------------------------------------------------
(* C39: whether take or examine finds an item at a location depends on that  *)
(* location's static item list alone, not on the session's history.  After   *)
(* a successful take the item is still listed by look and still matched at   *)
(* its location; after a drop the same take succeeds again there, any number *)
(* of times; a drop at a location whose item list lacks the item does not    *)
(* make it findable there; and the flag item_taken_<id> that take sets stays *)
(* true after the item is dropped.                                           *)

\* what a take of target must answer, from the item list of the location and
\* the inventory alone
StaticMatches(location, target) ==
  {i \in 1..Len(location.items) :
     /\ location.items[i].visible
     /\ \/ Lower(location.items[i].name) = Lower(target)
        \/ Contains(Lower(target), Lower(location.items[i].name))
        \/ Lower(location.items[i].id) = Lower(target)}

StaticTake(location, inventory, target) ==
  LET at == StaticMatches(location, target) IN
  IF at = {} THEN "not seen"
  ELSE IF ~location.items[Least(at)].takeable THEN "not takeable"
  ELSE IF location.items[Least(at)].id \in Range(inventory) THEN "held"
  ELSE "taken"

TakeAnswers(answer, location, inventory, target) ==
  LET item == location.items[Least(StaticMatches(location, target))]
      expected == StaticTake(location, inventory, target) IN
  /\ answer.success = (expected = "taken")
  /\ expected = "not seen" => answer.message = <<"Y","o","u"," ","d","o","n","'","t"," ","s","e","e"," ","'">> \o target \o <<"'"," ","h","e","r","e",".">>
  /\ expected = "not takeable" =>
       answer.message = <<"Y","o","u"," ","c","a","n","'","t"," ","t","a","k","e"," ","t","h","e"," ">> \o item.name \o <<".">>
  /\ expected = "held" => answer.message = <<"Y","o","u"," ","a","l","r","e","a","d","y"," ","h","a","v","e"," ","t","h","e"," ">> \o item.name \o <<".">>
  /\ expected = "taken" => answer.message = <<"Y","o","u"," ","t","a","k","e"," ","t","h","e"," ">> \o item.name \o <<".">>

\* the id a successful drop removed
Dropped == Val(FindInInventory(SessionBefore, Val(Cmd.target)))

C39_Answers ==
  /\ Handled("look") =>
       /\ Returned /\ Answer.success
       /\ \A i \in 1..Len(LocationBefore.items) :
            LocationBefore.items[i].visible
              => Contains(LocationBefore.items[i].name, Answer.message)
  /\ (Handled("take") /\ ~Falsy(Cmd.target)) =>
       /\ Returned
       /\ TakeAnswers(Answer, LocationBefore, SessionBefore.inventory, Val(Cmd.target))
  /\ (Handled("examine") /\ ~Falsy(Cmd.target)
        /\ StaticMatches(LocationBefore, Val(Cmd.target)) # {}) =>
       /\ Returned /\ Answer.success
  /\ (Handled("drop") /\ Returned /\ Answer.success) =>
       \A o \in Execute(Store(sessions, clock), adventures,
                        GameCommand("take", Some(Dropped), None, S_xyzzy, None), call.sid) :
         /\ ~o.raised
         /\ TakeAnswers(Val(o.ret), LocationBefore, SessionAfter.inventory, Dropped)

\* every flag that was true in the table the call found is true in the table
\* it left
FlagsKept ==
  \A i \in 1..Len(pre) :
    /\ Has(sessions, pre[i].id)
    /\ \A l \in DOMAIN pre[i].location_states :
         \A f \in DOMAIN pre[i].location_states[l] :
           pre[i].location_states[l][f] =>
             /\ l \in DOMAIN Doc(sessions, pre[i].id).location_states
             /\ f \in DOMAIN Doc(sessions, pre[i].id).location_states[l]
             /\ Doc(sessions, pre[i].id).location_states[l][f]

C39_FindingIgnoresHistory == C39_Answers /\ (call # NoCall => FlagsKept)

\* the item was taken here before and dropped since (its flag is set, it is
\* not held), and the take succeeds again
C39_Witness ==
  /\ Handled("take") /\ ~Falsy(Cmd.target)
  /\ StaticTake(LocationBefore, SessionBefore.inventory, Val(Cmd.target)) = "taken"
  /\ LocationFlagOf(SessionBefore, LocationBefore.id,
                    TakenFlag(Val(FindItemInLocation(LocationBefore, Val(Cmd.target)))))
  /\ Returned /\ Answer.success

\* look lists an item that the session holds
C39_LookListsHeldReached ==
  /\ Handled("look") /\ Returned
  /\ \E i \in 1..Len(LocationBefore.items) :
       /\ LocationBefore.items[i].visible
       /\ LocationBefore.items[i].id \in Range(SessionBefore.inventory)
       /\ Contains(LocationBefore.items[i].name, Answer.message)

\* an item was dropped at a location whose list lacks it, and no take of it
\* can succeed there
C39_DroppedElsewhereReached ==
  /\ Handled("drop") /\ Returned /\ Answer.success
  /\ \A i \in 1..Len(LocationBefore.items) : LocationBefore.items[i].id # Dropped
  /\ StaticTake(LocationBefore, SessionAfter.inventory, Dropped) = "not seen"
  /\ \E l \in DOMAIN SessionAfter.location_states :
       DictGet(SessionAfter.location_states[l], TakenFlag([id |-> Dropped]), FALSE)

\* the item was dropped where it is listed: its flag is still set
C39_FlagAfterDropReached ==
  /\ Handled("drop") /\ Returned /\ Answer.success
  /\ StaticTake(LocationBefore, SessionAfter.inventory, Dropped) = "taken"
  /\ LocationFlagOf(SessionAfter, LocationBefore.id, TakenFlag([id |-> Dropped]))

-----------------------------------------------------------------------------
(* State machine: the command route (send_command) of two requests on one    *)
(* session, on one event loop.  A request runs without a break from its read *)
(* of the session to the end of executor.execute, unless parse_command waits *)
(* on a configured interpreter: there the other request may run.  Each       *)
(* request keeps on record the location it read for the parser and the       *)
(* location the executor read.                                               *)

RouteInputs == {<<"g","o"," ","n","o","r","t","h">>, <<"g","o"," ","s","o","u","t","h">>}

RouteLlms ==
  {Llm("unconfigured", "raises", <<>>),
   Llm("configured", "raises", <<>>),
   Llm("configured", "text",
       <<Object(("type" :> JString(<<"m","o","v","e">>)) @@ ("target" :> JString(S_north)))>>)}

\* what send_command holds after its reads: the session, the location found
\* for it and the interpreter it is going to ask
Request(sid, session, location, llm, player_input) ==
  [sid |-> sid, seen |-> session.current_location_id, location |-> location,
   inventory |-> session.inventory, llm |-> llm, player_input |-> player_input,
   waited |-> FALSE, found |-> None, command |-> None, answer |-> None]

\* parse_command has its command: executor.execute runs on the session as it
\* is stored now
Executing(c, f) ==
  LET command == Val(ParseCommand(f.llm, f.player_input, f.location, f.inventory).ret)
      now == GetSession(sessions, f.sid) IN
  \E o \in Execute(Store(sessions, clock), adventures, command, f.sid) :
    /\ ~o.raised
    /\ sessions' = o.st.db
    /\ clock' = o.st.clock
    /\ frame' = [frame EXCEPT ![c] =
         [f EXCEPT !.command = Some(command),
                   !.found = IF IsNone(now) THEN None
                             ELSE Some(Val(now).current_location_id),
                   !.answer = o.ret]]
    /\ pc' = [pc EXCEPT ![c] = "respond"]

\* the request of c arrives: the session, its adventure and its current
\* location are read (a 404 when one is missing), then parse_command is
\* called; with an interpreter that is not configured nothing waits and
\* the executor runs at once
RouteBegin(c) ==
  /\ pc[c] = "idle"
  /\ \E sid \in SessionIds, player_input \in RouteInputs, llm \in RouteLlms :
       LET session == GetSession(sessions, sid)
           adventure == GetAdventure(adventures, Val(session).adventure_id)
           location == GetLocation(Val(adventure), Val(session).current_location_id) IN
       /\ ~IsNone(session) /\ ~IsNone(adventure) /\ ~IsNone(location)
       /\ IF llm.service = "configured"
          THEN /\ frame' = [frame EXCEPT ![c] =
                    [Request(sid, Val(session), Val(location), llm, player_input)
                       EXCEPT !.waited = TRUE]]
               /\ pc' = [pc EXCEPT ![c] = "waiting"]
               /\ UNCHANGED <<sessions, clock>>
          ELSE Executing(c, Request(sid, Val(session), Val(location), llm, player_input))
  /\ UNCHANGED <<adventures, issued, origin, pre, call, result, asked>>

\* the interpreter has answered or failed: parse_command returns and the
\* executor runs
RouteResume(c) ==
  /\ pc[c] = "waiting"
  /\ Executing(c, frame[c])
  /\ UNCHANGED <<adventures, issued, origin, pre, call, result, asked>>

\* the rest of send_command: it reads the session again and builds the
\* response; the table stays as it is
RouteRespond(c) ==
  /\ pc[c] = "respond"
  /\ pc' = [pc EXCEPT ![c] = "idle"]
  /\ frame' = [frame EXCEPT ![c] = <<>>]
  /\ UNCHANGED <<adventures, sessions, issued, origin, clock, pre, call, result, asked>>

RouteNext ==
  \/ RaceNewGame
  \/ \E c \in Callers : RouteBegin(c)
  \/ \E c \in Callers : RouteResume(c)
  \/ \E c \in Callers : RouteRespond(c)

RouteSpec == Init /\ [][RouteNext]_vars

-----------------------------------------------------------------------------
(* C40: in the command route a command is executed against the current       *)
(* location it was interpreted for: between the route's read of the session  *)
(* for the parser, which may wait on the interpreter, and the executor's own *)
(* read of the session, no other command on the same session id changes the  *)
(* session's current_location_id.                                            *)

Answered(c) == pc[c] = "respond"

C40_ExecutedWhereInterpreted ==
  \A c \in Callers : Answered(c) => frame[c].found = Some(frame[c].seen)

\* what holds instead: a request whose parse_command did not wait is executed
\* where it was interpreted
C40_UnawaitedRequestIsSerial ==
  \A c \in Callers :
    (Answered(c) /\ ~frame[c].waited) => frame[c].found = Some(frame[c].seen)

\* the interpreter answered "move north" for the hall; the other request
\* moved the session to the garden meanwhile, and the executor refused the
\* command there
C40_MovedMeanwhileReached ==
  \E c \in Callers :
    /\ Answered(c) /\ frame[c].waited
    /\ frame[c].seen = S_hall /\ frame[c].found = Some(S_garden)
    /\ Val(frame[c].command).type = "move"
    /\ Val(frame[c].command).target = Some(S_north)
    /\ ~Val(frame[c].answer).success

\* a request that waited and found the session where it had read it
C40_UndisturbedWaitReached ==
  \E c \in Callers :
    /\ Answered(c) /\ frame[c].waited
    /\ frame[c].found = Some(frame[c].seen)
    /\ Val(frame[c].answer).success /\ Val(frame[c].answer).location_changed
====
